---- MODULE Spec2Model ----
(***************************************************************************)
(* A model of the document extraction pipeline of src/cleaning:            *)
(*   - ContentDeduplicator.merge_and_deduplicate (deduplicator.py),        *)
(*   - process_file and process_file_worker (cleaner.py),                  *)
(*   - preprocess, the parallel coordinator (cleaner.py),                  *)
(*   - is_good, quality_check, is_valid_encoding (content_validation.py),  *)
(*   - clean_web_content and remove_web_boilerplate (web_cleaner.py).      *)
(* Text is a sequence of characters, a file a sequence of bytes; both are  *)
(* sequences of one-element strings.  The only multi-byte character of the *)
(* model is "U", whose UTF-8 form is the two bytes "U1" "U2".              *)
(***************************************************************************)
EXTENDS Integers, Sequences, FiniteSets, TLC

VARIABLES
    \* ---- ContentDeduplicator.merge_and_deduplicate
    disk,              \* the scratch files that exist: a function from path to bytes
    temp_files,        \* the paths of the scratch files handed to the merge, in list order
    chunk_size,        \* bytes asked of one f.read
    mpc,               \* "idle" | "streaming" | "done": where the merge is
    file_idx,          \* index in temp_files of the file being streamed (0: none yet)
    file_pos,          \* bytes of the open file already read
    buffer,            \* decoded text not yet split into documents
    exact_hashes,      \* self.exact_hashes
    kept_after_dedup,  \* self.kept_after_dedup
    out,               \* the documents written to output_file, one per out.write(doc + delimiter)
    docs_seen,         \* history: every document the merge extracted, in stream order
    merge_opened,      \* history: the scratch files the merge opened, in order
    open_files,        \* the scratch files the merge holds open
    merge_closed,      \* history: the scratch files closed, with the bytes read and the buffer left
    \* ---- process_file_worker and process_file, on one archive
    records,           \* the records of the archive, in archive order
    config,            \* the configuration passed to the worker
    wpc,               \* "init" | "running" | "flushed" | "returned" | "raised"
    rec_pos,           \* records of the archive already handled
    pf_total,          \* process_file's total
    pf_kept,           \* process_file's kept
    batch_texts,       \* process_file's batch: the documents buffered (by record index)
    sink,              \* the documents written to the scratch file (by record index)
    batch_peak,        \* history: the most documents batch_texts has held at once
    classified,        \* history: the records decoded, cleaned and classified (by record index)
    tf_open,           \* the scratch file object is open
    tf_exists,         \* the scratch file exists on disk
    pf_exception,      \* the exception process_file raised ("none": none)
    w_raised,          \* the exception process_file_worker raised to its caller
    w_result,          \* what process_file_worker returned ("none": nothing yet)
    \* ---- is_good, on one text
    text,              \* the text argument: a sequence of characters
    english_words,     \* the lexicon argument: a set of lowercase words
    good_config,       \* the config argument
    good_result,       \* how is_good ended: "True" | "False" | "TypeError" ("none": not called yet)
    text_type,         \* the type of the text argument: "str" | "NoneType"
    quality_result,    \* how quality_check ended, as good_result
    \* ---- preprocess, its worker pool and the scratch files
    wet_files,         \* the archives found, each as what process_file gets out of it
    cpu_count,         \* cpu_count()
    dedup_enabled,     \* config["deduplication_enabled"]
    pc,                \* "start" | "collect" | "merge" | "cleanup" | "summary" | "done" | "raised"
    num_workers,       \* preprocess's num_workers
    chunksize,         \* preprocess's chunksize
    next_task,         \* the next chunk of worker_args the pool hands to a free worker
    workers,           \* the pool's processes: what each is doing
    results,           \* the pool's result queue: finished chunks, in order of arrival
    n_yielded,         \* chunks the imap_unordered iterator has handed to the loop
    pending,           \* results of the chunk being iterated, not yet handled by the loop body
    total,             \* preprocess's total
    kept,              \* preprocess's kept
    pp_kept_after_dedup,  \* preprocess's local kept_after_dedup
    duplicates_removed,   \* preprocess's local duplicates_removed
    summary,           \* the counts the final summary printed (<<>>: nothing printed)
    exception,         \* the exception that left preprocess ("none": none)
    output_file,       \* the final corpus file: "absent" | "written"
    unlinks,           \* history: the paths os.unlink removed, in order
    failed,            \* history: the files whose worker raised, with the exception
    lost,              \* the scratch files that went missing before the merge opened them
    \* ---- the configuration modules and the dictionaries their getters returned
    module_configs,    \* the module-level dictionaries DEFAULT_CONFIG and PREPARATION_CONFIG
    heap,              \* the list objects dictionaries refer to: reference -> contents
    held,              \* the dictionaries callers got from a getter and still hold
    last_returned,     \* the values of the dictionary the latest getter call returned
    \* ---- one ContentDeduplicator object over several merge calls
    instance,          \* the object's exact_hashes and kept_after_dedup, and the calls made on it
    calls,             \* history: every merge_and_deduplicate call, with what it wrote
    \* ---- clean_web_content and remove_web_boilerplate, on one text
    web_text,          \* the text argument: a sequence of characters
    web_cleaned,       \* what clean_web_content returned, as <<text>> (<<>>: not called yet)
    web_result,        \* what remove_web_boilerplate returned, as <<text>> (<<>>: not called yet)
    \* ---- is_valid_encoding, on one argument
    enc_type,          \* the type of the text argument: "NoneType" | "str" | "bytes"
    enc_value,         \* the argument: a sequence of characters or of bytes (None: empty)
    enc_config,        \* the config argument
    enc_result         \* how the call ended: "True" | "False" | "ZeroDivisionError" ("none": not called yet)

mergeVars == <<disk, temp_files, chunk_size, mpc, file_idx, file_pos, buffer,
               exact_hashes, kept_after_dedup, out, docs_seen, merge_opened, open_files,
               merge_closed>>

workerVars == <<records, config, wpc, rec_pos, pf_total, pf_kept, batch_texts, sink,
                batch_peak, classified, tf_open, tf_exists, pf_exception, w_raised, w_result>>

goodVars == <<text, english_words, good_config, good_result, text_type, quality_result>>

preVars == <<wet_files, cpu_count, dedup_enabled, pc, num_workers, chunksize, next_task,
             workers, results, n_yielded, pending, total, kept, pp_kept_after_dedup,
             duplicates_removed, summary, exception, output_file, unlinks, failed, lost>>

faultVars == <<lost, merge_opened>>

cfgVars == <<module_configs, heap, held, last_returned>>

reuseVars == <<instance, calls>>

webVars == <<web_text, web_cleaned, web_result>>

encVars == <<enc_type, enc_value, enc_config, enc_result>>

vars == <<mergeVars, workerVars, goodVars, preVars, cfgVars, reuseVars, webVars, encVars>>

\* what an action of one component leaves alone
notMerge == <<workerVars, goodVars, preVars, cfgVars, reuseVars, webVars, encVars>>
notWorker == <<mergeVars, goodVars, preVars, cfgVars, reuseVars, webVars, encVars>>
notGood == <<mergeVars, workerVars, preVars, cfgVars, reuseVars, webVars, encVars>>
notPre == <<workerVars, goodVars, cfgVars, reuseVars, webVars, encVars>>
notCfg == <<mergeVars, workerVars, goodVars, preVars, reuseVars, webVars, encVars>>
notReuse == <<mergeVars, workerVars, goodVars, preVars, cfgVars, webVars, encVars>>
notWeb == <<mergeVars, workerVars, goodVars, preVars, cfgVars, reuseVars, encVars>>
notEnc == <<mergeVars, workerVars, goodVars, preVars, cfgVars, reuseVars, webVars>>

(***************************************************************************)
(* Bounds of the model.                                                    *)
(***************************************************************************)
MaxMergeFiles == 2     \* scratch files in one merge
MaxDocs == 3           \* documents (terminated or trailing) over all scratch files of one merge
MaxChunk == 2          \* the largest partial chunk size tried, besides a read of the whole file
MaxRecords == 4        \* records in one archive
MaxBatch == 2          \* the largest batch_size tried
MaxTextLen == 4        \* characters in a text given to is_good
MaxContentLines == 7   \* lines in the texts of long lines given to is_good and quality_check
MaxCpu == 2            \* the largest cpu_count() tried
MaxFiles == 4          \* archives in the input directory, on a machine with several CPUs
MaxSerialFiles == 8    \* archives in the input directory, on a machine with one CPU
MaxHeld == 2           \* dictionaries callers hold at one time
MaxTokens == 5         \* the longest a list inside a dictionary is made
MaxStreamFiles == 2     \* scratch files the workers wrote for one merge
MaxStreamDocs == 2      \* documents the workers kept, over all their scratch files
MaxCalls == 2          \* merge_and_deduplicate calls followed in a row
MaxArg == 3            \* characters or bytes in an argument given to is_valid_encoding
MaxShort == 3          \* characters in the short texts given to the web cleaner, all tried
MaxSnippet == 4        \* characters of divider and blank material set in a text of about 100
MaxLines == 15         \* lines in the texts of many lines given to the web cleaner

(***************************************************************************)
(* Text helpers: what the str and bytes methods the code calls do.         *)
(***************************************************************************)
Delim == <<"\n", "\n", "-", "-", "-", "\n", "\n">>

Whitespace == {" ", "\n", "\t"}

\* s[i..] starts with p
MatchesAt(s, p, i) ==
    /\ i + Len(p) - 1 <= Len(s)
    /\ \A k \in 1..Len(p) : s[i + k - 1] = p[k]

\* p in s
Contains(s, p) == \E i \in 1..Len(s) : MatchesAt(s, p, i)

\* s.find(p), 1-based
Find(s, p) == CHOOSE i \in 1..Len(s) :
                 /\ MatchesAt(s, p, i)
                 /\ \A j \in 1..(i - 1) : ~MatchesAt(s, p, j)

\* s.split(p, 1) when p occurs in s
SplitOnce(s, p) ==
    LET i == Find(s, p)
    IN  [doc |-> SubSeq(s, 1, i - 1), rest |-> SubSeq(s, i + Len(p), Len(s))]

\* s.strip()
Strip(s) ==
    LET keep == {i \in 1..Len(s) : s[i] \notin Whitespace}
    IN  IF keep = {} THEN <<>>
        ELSE LET lo == CHOOSE i \in keep : \A j \in keep : i <= j
                 hi == CHOOSE i \in keep : \A j \in keep : j <= i
             IN  SubSeq(s, lo, hi)

\* bytes.decode('utf-8', errors='ignore'): a complete "U1" "U2" pair is the
\* character "U"; a lead byte without its continuation (also at the end of
\* the bytes) and a continuation byte without its lead are dropped.
RECURSIVE Decode(_)
Decode(bytes) ==
    IF bytes = <<>> THEN <<>>
    ELSE IF bytes[1] = "U1"
         THEN IF Len(bytes) >= 2 /\ bytes[2] = "U2"
              THEN <<"U">> \o Decode(SubSeq(bytes, 3, Len(bytes)))
              ELSE Decode(Tail(bytes))
         ELSE IF bytes[1] = "U2"
              THEN Decode(Tail(bytes))
              ELSE <<bytes[1]>> \o Decode(Tail(bytes))

\* str.encode('utf-8', errors='ignore'): "S" is a lone surrogate, which has
\* no UTF-8 form and is left out
RECURSIVE Encode(_)
Encode(s) ==
    IF s = <<>> THEN <<>>
    ELSE (IF s[1] = "U" THEN <<"U1", "U2">>
          ELSE IF s[1] = "S" THEN <<>>
          ELSE <<s[1]>>) \o Encode(Tail(s))

\* hasher.reset(); hasher.update(doc.encode('utf-8')); hasher.intdigest().
\* The 64-bit xxh64 digest is a function of the encoded bytes; it is taken to
\* be collision-free on the short documents of the model, so the digest is
\* represented by the byte string it was computed from.
Hash(doc) == <<"xxh64", Encode(doc)>>

\* n times the character c
Times(c, n) == [i \in 1..n |-> c]

\* sep.join(ls)
RECURSIVE Join(_, _)
Join(ls, sep) ==
    IF ls = <<>> THEN <<>>
    ELSE IF Len(ls) = 1 THEN ls[1]
    ELSE ls[1] \o sep \o Join(Tail(ls), sep)

RECURSIVE Flatten(_)
Flatten(ss) == IF ss = <<>> THEN <<>> ELSE Head(ss) \o Flatten(Tail(ss))

(***************************************************************************)
(* is_good (Stage 1 of the quality classifier)                             *)
(***************************************************************************)
\* The characters of the texts tried: two ASCII letters, a letter outside
\* Latin-1 ("U", two bytes in UTF-8, neither printable ASCII), a space and
\* a newline.
Chars == {"e", "E", "U", " ", "\n"}

\* the characters with char.isalpha()
AlphaChars == {"e", "E", "U"}

\* the characters of the texts that LATIN_ALPHA holds
LATIN_ALPHA == {"e", "E"}

\* [a-zA-Z]
IsAsciiLetter(c) == c \in {"e", "E"}

\* \w, whose complement makes the \b of WORD_PATTERN
IsWordChar(c) == c \in {"e", "E", "U"}

\* str.lower(), character by character
LowerChar(c) == IF c = "E" THEN "e" ELSE c

Lower(s) == [i \in 1..Len(s) |-> LowerChar(s[i])]

\* the bytes PRINTABLE_PATTERN matches
PrintableBytes == {"e", "E", " ", "\n"}

\* sum(1 for x in s if x in S)
CountIn(s, S) == Cardinality({i \in 1..Len(s) : s[i] \in S})

\* s.split(sep) for a one-character sep: at least one piece
RECURSIVE SplitOn(_, _)
SplitOn(s, sep) ==
    IF \A i \in 1..Len(s) : s[i] # sep THEN <<s>>
    ELSE LET i == CHOOSE k \in 1..Len(s) : s[k] = sep /\ \A j \in 1..(k - 1) : s[j] # sep
         IN  <<SubSeq(s, 1, i - 1)>> \o SplitOn(SubSeq(s, i + 1, Len(s)), sep)

\* the maximal runs of \w characters of s, in order
RECURSIVE WordRuns(_)
WordRuns(s) ==
    IF s = <<>> THEN <<>>
    ELSE IF ~IsWordChar(s[1]) THEN WordRuns(Tail(s))
    ELSE LET stops == {k \in 1..Len(s) : ~IsWordChar(s[k])}
             n == IF stops = {} THEN Len(s)
                  ELSE (CHOOSE k \in stops : \A j \in stops : k <= j) - 1
         IN  <<SubSeq(s, 1, n)>> \o WordRuns(SubSeq(s, n + 1, Len(s)))

\* WORD_PATTERN.findall(s), \b[a-zA-Z]+\b: the runs of \w characters made
\* of ASCII letters only (a run touching another \w character has no word
\* boundary there and yields nothing)
FindWords(s) ==
    SelectSeq(WordRuns(s), LAMBDA w : \A i \in 1..Len(w) : IsAsciiLetter(w[i]))

\* s[:n]
Take(s, n) == SubSeq(s, 1, IF n < Len(s) THEN n ELSE Len(s))

\* the elements of a sequence, as a set
Range(s) == {s[i] : i \in 1..Len(s)}

\* is_valid_encoding for a str argument: a ratio is a pair <<num, den>>
is_valid_encoding(t, cfg) ==
    IF t = <<>> THEN FALSE
    ELSE LET text_bytes == Encode(t)
             printable_count == CountIn(text_bytes, PrintableBytes)
             total_chars == Len(text_bytes)
         IN  printable_count * cfg.printable_ratio_threshold[2]
               > cfg.printable_ratio_threshold[1] * total_chars

\* A plausible slip: the bounds are taken inclusive.
LengthInRangeInclusive(text_len, cfg) ==
    cfg.min_text_length <= text_len /\ text_len <= cfg.max_text_length

\* config["min_text_length"] < text_len < config["max_text_length"]
LengthInRange(text_len, cfg) ==
    cfg.min_text_length < text_len /\ text_len < cfg.max_text_length

is_good(t, lexicon, cfg) ==
    LET text_len == Len(t)
        latin_chars == CountIn(t, LATIN_ALPHA)
        total_alpha == CountIn(t, AlphaChars)
        search_text == Lower(Take(t, IF 2000 < text_len THEN 2000 ELSE text_len))
        words == Take(FindWords(search_text), 100)
        english_count == CountIn(words, lexicon)
        lines == SplitOn(t, "\n")
    IN  IF ~LengthInRange(text_len, cfg) THEN FALSE
        ELSE IF ~is_valid_encoding(t, cfg) THEN FALSE
        ELSE IF total_alpha > 0
                /\ latin_chars * cfg.latin_char_threshold[2]
                     < cfg.latin_char_threshold[1] * total_alpha THEN FALSE
        ELSE IF words = <<>> THEN FALSE
        ELSE IF english_count * cfg.english_threshold[2]
                  < Len(words) * cfg.english_threshold[1] THEN FALSE
        ELSE Cardinality(Range(lines)) * cfg.unique_lines_threshold[2]
               > cfg.unique_lines_threshold[1] * Len(lines)

\* the characters that are cased, and those of them that are upper case
CasedChars == {"e", "E", "U"}

UpperChars == {"E"}

\* str.isupper(): some cased character, and every cased character upper case
IsUpper(s) ==
    /\ \E i \in 1..Len(s) : s[i] \in CasedChars
    /\ \A i \in 1..Len(s) : s[i] \in CasedChars => s[i] \in UpperChars

\* the characters SENTENCE_PATTERN matches
SentenceEnds == {".", "!", "?"}

\* the maximal non-empty runs of characters of s outside Seps, in order:
\* str.split() for Seps the whitespace, and the non-empty pieces of
\* SENTENCE_PATTERN.split(s) for Seps the sentence ends
RECURSIVE Fields(_, _)
Fields(s, Seps) ==
    IF s = <<>> THEN <<>>
    ELSE IF s[1] \in Seps THEN Fields(Tail(s), Seps)
    ELSE LET stops == {k \in 1..Len(s) : s[k] \in Seps}
             n == IF stops = {} THEN Len(s)
                  ELSE (CHOOSE k \in stops : \A j \in stops : k <= j) - 1
         IN  <<SubSeq(s, 1, n)>> \o Fields(SubSeq(s, n + 1, Len(s)), Seps)

\* sum(len(s.split()) for s in sentences)
RECURSIVE TotalWords(_)
TotalWords(sentences) ==
    IF sentences = <<>> THEN 0
    ELSE Len(Fields(Head(sentences), Whitespace)) + TotalWords(Tail(sentences))

\* the stripped lines of t that are not empty, in order
StrippedLines(t) ==
    SelectSeq([i \in 1..Len(SplitOn(t, "\n")) |-> Strip(SplitOn(t, "\n")[i])],
              LAMBDA l : l # <<>>)

\* A plausible slip: a text half of whose lines are distinct passes.
TooRepetitiveBelowHalf(stripped_lines) ==
    /\ Len(stripped_lines) >= 5
    /\ Cardinality(Range(stripped_lines)) * 2 < Len(stripped_lines)

\* len(stripped_lines) >= 5 and len(set(stripped_lines)) / len(stripped_lines) <= 0.5
TooRepetitive(stripped_lines) ==
    /\ Len(stripped_lines) >= 5
    /\ Cardinality(Range(stripped_lines)) * 2 <= Len(stripped_lines)

\* quality_check from the content ratio on: content ratio, word diversity,
\* words per sentence
QualityAfterLines(t, cfg) ==
    LET lines_len == Len(SplitOn(t, "\n"))
        stripped_lines == StrippedLines(t)
        content_lines ==
            Cardinality({i \in 1..Len(stripped_lines) :
                            /\ Len(stripped_lines[i]) > 40
                            /\ " " \in Range(stripped_lines[i])
                            /\ ~IsUpper(stripped_lines[i])})
        words == Fields(Lower(t), Whitespace)
        sentences == SelectSeq([i \in 1..Len(Fields(t, SentenceEnds)) |->
                                   Strip(Fields(t, SentenceEnds)[i])],
                               LAMBDA x : x # <<>>)
    IN  IF lines_len > 0
                /\ content_lines * cfg.content_ratio_threshold[2]
                     <= cfg.content_ratio_threshold[1] * lines_len THEN FALSE
        ELSE IF Len(words) >= 50
                /\ Cardinality(Range(words)) * cfg.word_diversity_threshold[2]
                     <= cfg.word_diversity_threshold[1] * Len(words) THEN FALSE
        ELSE IF Len(sentences) >= 3
             THEN /\ cfg.avg_words_min * Len(sentences) < TotalWords(sentences)
                  /\ TotalWords(sentences) < cfg.avg_words_max * Len(sentences)
        ELSE TRUE

\* quality_check for a str argument
quality_check(t, cfg) ==
    IF Len(t) < cfg.min_text_length THEN FALSE
    ELSE IF TooRepetitive(StrippedLines(t)) THEN FALSE
    ELSE QualityAfterLines(t, cfg)

\* len(text): the built-in raises TypeError for None
LenRaises(type) == type = "NoneType"

\* how a call is_good(text, english_words, config) ends
IsGoodOutcome(type, t, lexicon, cfg) ==
    IF LenRaises(type) THEN "TypeError"
    ELSE IF is_good(t, lexicon, cfg) THEN "True" ELSE "False"

\* how a call quality_check(text, config) ends
QualityCheckOutcome(type, t, cfg) ==
    IF LenRaises(type) THEN "TypeError"
    ELSE IF quality_check(t, cfg) THEN "True" ELSE "False"

RECURSIVE SeqsUpTo(_, _)
SeqsUpTo(S, n) ==
    IF n = 0 THEN {<<>>}
    ELSE LET shorter == SeqsUpTo(S, n - 1)
         IN  shorter \cup {Append(q, c) : q \in shorter, c \in S}

\* The configurations tried: the ratio thresholds of DEFAULT_CONFIG (0.95,
\* 0.95, 0.4, 0.5) and looser ones, and length bounds within reach of the
\* texts.
GoodConfigs ==
    [min_text_length : 0..2,
     max_text_length : 2..(MaxTextLen + 1),
     printable_ratio_threshold : {<<19, 20>>, <<1, 2>>},
     latin_char_threshold : {<<19, 20>>, <<1, 2>>},
     english_threshold : {<<2, 5>>},
     unique_lines_threshold : {<<1, 2>>},
     content_ratio_threshold : {<<1, 5>>},
     word_diversity_threshold : {<<3, 10>>},
     avg_words_min : {5},
     avg_words_max : {50}]

\* a line of more than 40 characters that holds a space and a lower-case
\* letter, which quality_check counts as content; j tells the lines apart
ContentLine(j) == Times("e", 40) \o <<" ">> \o Times("e", j)

\* line i of a text of n lines of which d are distinct
DressedLine(i, d, dress) ==
    CASE dress = "plain" -> ContentLine((i % d) + 1)
      [] dress = "indented" -> (IF i % 2 = 0 THEN <<" ">> ELSE <<>>) \o ContentLine((i % d) + 1)
      [] dress = "blanks" -> ContentLine((i % d) + 1) \o (IF i = 1 THEN <<"\n", " ">> ELSE <<>>)

\* texts of 3 to MaxContentLines content lines, of which 1 to 4 are distinct
LineTexts ==
    {Join([i \in 1..n |-> DressedLine(i, d, dress)], <<"\n">>) :
        n \in 3..MaxContentLines, d \in 1..4, dress \in {"plain", "indented", "blanks"}}

\* no call of is_good is modelled
GoodOff ==
    /\ text = <<>>
    /\ english_words = {}
    /\ good_config = <<>>
    /\ good_result = "off"
    /\ text_type = "off"
    /\ quality_result = "off"

\* the text argument is a str of the characters tried, or None (text is
\* then left empty and not looked at)
GoodInit ==
    /\ text_type \in {"str", "NoneType"}
    /\ text \in (IF text_type = "str" THEN SeqsUpTo(Chars, MaxTextLen) \cup LineTexts
                 ELSE {<<>>})
    /\ english_words = {<<"e">>}
    /\ good_config \in GoodConfigs
    /\ good_result = "none"
    /\ quality_result = "none"

\* result = is_good(text, english_words, config)
CallIsGood ==
    /\ good_result = "none"
    /\ good_result' = IsGoodOutcome(text_type, text, english_words, good_config)
    /\ UNCHANGED <<text, english_words, good_config, text_type, quality_result>>
    /\ UNCHANGED notGood

\* result = quality_check(text, config)
CallQualityCheck ==
    /\ quality_result = "none"
    /\ quality_result' = QualityCheckOutcome(text_type, text, good_config)
    /\ UNCHANGED <<text, english_words, good_config, text_type, good_result>>
    /\ UNCHANGED notGood

GoodNext == CallIsGood \/ CallQualityCheck

(***************************************************************************)
(* process_file and process_file_worker                                    *)
(***************************************************************************)
\* The records tried.  A record is its type, the length of its content in
\* bytes, and what is_good and quality_check answer on its cleaned text;
\* the configurations tried put min_text_length at 1 and max_text_length
\* at 3, so the lengths 1 and 3 are the two bounds and 2 lies between them.
RecordKinds ==
    {[rec_type |-> "warcinfo", nbytes |-> 2, good |-> TRUE, quality |-> TRUE]}
    \cup {[rec_type |-> "conversion", nbytes |-> n, good |-> TRUE, quality |-> TRUE] : n \in {1, 3}}
    \cup [rec_type : {"conversion"}, nbytes : {2}, good : BOOLEAN, quality : BOOLEAN]

Archives == UNION {[1..n -> RecordKinds] : n \in 0..MaxRecords}

WorkerConfigs ==
    {[min_text_length |-> 1, max_text_length |-> 3, batch_size |-> b] : b \in 1..MaxBatch}

\* what process_file can raise: errors of gzip, warcio and the sink, all of
\* them subclasses of Exception
Exceptions == {"BadGzipFile", "OSError"}

\* the locals of process_file and its sink
FileState == [total |-> pf_total, kept |-> pf_kept, batch_texts |-> batch_texts, sink |-> sink,
              batch_peak |-> batch_peak, classified |-> classified]

\* A plausible slip: the batch is written and not cleared.
FlushBatchNoClear(st) == [st EXCEPT !.sink = @ \o st.batch_texts]

\* out.write(''.join(batch_texts)); batch_texts.clear()
FlushBatch(st) == [st EXCEPT !.sink = @ \o st.batch_texts, !.batch_texts = <<>>]

\* A plausible slip: the remainder is never written.
FinalFlushMissing(st) == st

\* if batch_texts: out.write(''.join(batch_texts))
FinalFlush(st) ==
    IF st.batch_texts # <<>> THEN [st EXCEPT !.sink = @ \o st.batch_texts] ELSE st

\* A plausible slip: the bounds of the prefilter are taken inclusive.
InByteRangeInclusive(nbytes, cfg) ==
    cfg.min_text_length <= nbytes /\ nbytes <= cfg.max_text_length

\* config["min_text_length"] < len(content_bytes) < config["max_text_length"]
InByteRange(nbytes, cfg) == cfg.min_text_length < nbytes /\ nbytes < cfg.max_text_length

\* A plausible slip: one passing stage is enough.
PassesEitherStage(rec) == rec.good \/ rec.quality

\* is_good(text, english_words, config) and quality_check(text, config)
PassesBothStages(rec) == rec.good /\ rec.quality

\* A plausible slip: the batch is written only once it is over batch_size.
FlushDueOver(n, batch_size) == n > batch_size

\* len(batch_texts) >= batch_size
FlushDue(n, batch_size) == n >= batch_size

\* the body of the loop over the archive, for record i
HandleOne(rec, i, cfg, st) ==
    IF rec.rec_type # "conversion" THEN st
    ELSE LET counted == [st EXCEPT !.total = @ + 1]
         IN  IF ~InByteRange(rec.nbytes, cfg) THEN counted
             ELSE LET cleaned == [counted EXCEPT !.classified = Append(@, i)]
                  IN  IF ~PassesBothStages(rec) THEN cleaned
                      ELSE LET added ==
                                 [cleaned EXCEPT
                                    !.batch_texts = Append(@, i),
                                    !.kept = @ + 1,
                                    !.batch_peak = IF @ < Len(cleaned.batch_texts) + 1
                                                   THEN Len(cleaned.batch_texts) + 1 ELSE @]
                           IN  IF FlushDue(Len(added.batch_texts), cfg.batch_size)
                               THEN FlushBatch(added)
                               ELSE added

\* A plausible slip: the handler closes the file and leaves it on disk.
ExceptHandlerNoUnlink(e) == [open |-> FALSE, exists |-> TRUE, raised |-> e]

\* except Exception as e: temp_file.close(); os.unlink(temp_file.name); raise e
ExceptHandler(e) == [open |-> FALSE, exists |-> FALSE, raised |-> e]

\* no worker is modelled
WorkerOff ==
    /\ records = <<>>
    /\ config = [min_text_length |-> 0, max_text_length |-> 0, batch_size |-> 0]
    /\ wpc = "off"
    /\ rec_pos = 0
    /\ pf_total = 0
    /\ pf_kept = 0
    /\ batch_texts = <<>>
    /\ sink = <<>>
    /\ batch_peak = 0
    /\ classified = <<>>
    /\ tf_open = FALSE
    /\ tf_exists = FALSE
    /\ pf_exception = "none"
    /\ w_raised = "none"
    /\ w_result = "none"

WorkerInit ==
    /\ records \in Archives
    /\ config \in WorkerConfigs
    /\ wpc = "init"
    /\ rec_pos = 0
    /\ pf_total = 0
    /\ pf_kept = 0
    /\ batch_texts = <<>>
    /\ sink = <<>>
    /\ batch_peak = 0
    /\ classified = <<>>
    /\ tf_open = FALSE
    /\ tf_exists = FALSE
    /\ pf_exception = "none"
    /\ w_raised = "none"
    /\ w_result = "none"

\* temp_file = tempfile.NamedTemporaryFile(..., delete=False); process_file is entered
WorkerStart ==
    /\ wpc = "init"
    /\ wpc' = "running"
    /\ tf_open' = TRUE
    /\ tf_exists' = TRUE
    /\ UNCHANGED <<records, config, rec_pos, pf_total, pf_kept, batch_texts, sink,
                   batch_peak, classified, pf_exception, w_raised, w_result>>
    /\ UNCHANGED notWorker

\* one turn of "for record in warcio.ArchiveIterator(gz)"
HandleRecord ==
    /\ wpc = "running"
    /\ rec_pos < Len(records)
    /\ LET st == HandleOne(records[rec_pos + 1], rec_pos + 1, config, FileState)
       IN  /\ pf_total' = st.total
           /\ pf_kept' = st.kept
           /\ batch_texts' = st.batch_texts
           /\ sink' = st.sink
           /\ batch_peak' = st.batch_peak
           /\ classified' = st.classified
    /\ rec_pos' = rec_pos + 1
    /\ UNCHANGED <<records, config, wpc, tf_open, tf_exists, pf_exception, w_raised, w_result>>
    /\ UNCHANGED notWorker

\* the archive is exhausted: if batch_texts: out.write(''.join(batch_texts))
EndOfStream ==
    /\ wpc = "running"
    /\ rec_pos = Len(records)
    /\ sink' = FinalFlush(FileState).sink
    /\ wpc' = "flushed"
    /\ UNCHANGED <<records, config, rec_pos, pf_total, pf_kept, batch_texts, batch_peak,
                   classified, tf_open, tf_exists, pf_exception, w_raised, w_result>>
    /\ UNCHANGED notWorker

\* process_file returns its counts; temp_file.close(); the worker returns
WorkerReturn ==
    /\ wpc = "flushed"
    /\ tf_open' = FALSE
    /\ w_result' = [total |-> pf_total, kept |-> pf_kept, temp_file |-> "tmp"]
    /\ wpc' = "returned"
    /\ UNCHANGED <<records, config, rec_pos, pf_total, pf_kept, batch_texts, sink,
                   batch_peak, classified, tf_exists, pf_exception, w_raised>>
    /\ UNCHANGED notWorker

\* process_file raises e: opening the archive, reading a record, writing a
\* batch, or leaving the gzip block after the last flush; the worker's
\* handler runs
ProcessRaise ==
    /\ wpc \in {"running", "flushed"}
    /\ \E e \in Exceptions :
          LET h == ExceptHandler(e)
          IN  /\ pf_exception' = e
              /\ tf_open' = h.open
              /\ tf_exists' = h.exists
              /\ w_raised' = h.raised
    /\ wpc' = "raised"
    /\ UNCHANGED <<records, config, rec_pos, pf_total, pf_kept, batch_texts, sink,
                   batch_peak, classified, w_result>>
    /\ UNCHANGED notWorker

WorkerNext == WorkerStart \/ HandleRecord \/ EndOfStream \/ WorkerReturn \/ ProcessRaise


(***************************************************************************)
(* ContentDeduplicator.merge_and_deduplicate                               *)
(***************************************************************************)
\* The state of one merge, as the loop body reads and writes it.
MergeState == [buffer |-> buffer, exact_hashes |-> exact_hashes,
               kept_after_dedup |-> kept_after_dedup, out |-> out,
               docs_seen |-> docs_seen]

\* A plausible slip: the new hash is never recorded.
HashCheckNoAdd(doc, st) ==
    LET seen == [st EXCEPT !.docs_seen = Append(@, doc)]
    IN  IF Strip(doc) = <<>> THEN seen
        ELSE IF Hash(doc) \in st.exact_hashes THEN seen
        ELSE [seen EXCEPT !.out = Append(@, doc),
                          !.kept_after_dedup = @ + 1]

\* A plausible slip: the stripped document is hashed.
HashCheckStripped(doc, st) ==
    LET seen == [st EXCEPT !.docs_seen = Append(@, doc)]
    IN  IF Strip(doc) = <<>> THEN seen
        ELSE IF Hash(Strip(doc)) \in st.exact_hashes THEN seen
        ELSE [seen EXCEPT !.exact_hashes = @ \cup {Hash(Strip(doc))},
                          !.out = Append(@, doc),
                          !.kept_after_dedup = @ + 1]

\* A plausible slip: the hash set holds only the latest hash.
HashCheckKeepsLast(doc, st) ==
    LET seen == [st EXCEPT !.docs_seen = Append(@, doc)]
    IN  IF Strip(doc) = <<>> THEN seen
        ELSE IF Hash(doc) \in st.exact_hashes THEN seen
        ELSE [seen EXCEPT !.exact_hashes = {Hash(doc)},
                          !.out = Append(@, doc),
                          !.kept_after_dedup = @ + 1]

\* if doc.strip(): hash it; if the hash is new: record it, write doc +
\* delimiter, count it.  The same statements handle an extracted document
\* (lines 33-41) and the content left at end of file (lines 44-52).
HashCheck(doc, st) ==
    LET seen == [st EXCEPT !.docs_seen = Append(@, doc)]
    IN  IF Strip(doc) = <<>> THEN seen
        ELSE IF Hash(doc) \in st.exact_hashes THEN seen
        ELSE [seen EXCEPT !.exact_hashes = @ \cup {Hash(doc)},
                          !.out = Append(@, doc),
                          !.kept_after_dedup = @ + 1]

\* while '\n\n---\n\n' in buffer: doc, buffer = buffer.split(delimiter, 1); ...
RECURSIVE SplitLoop(_)
SplitLoop(st) ==
    IF ~Contains(st.buffer, Delim) THEN st
    ELSE LET parts == SplitOnce(st.buffer, Delim)
         IN  SplitLoop(HashCheck(parts.doc, [st EXCEPT !.buffer = parts.rest]))

\* The scratch files tried: documents followed by the delimiter, then
\* possibly content that no delimiter ends.
DocBodies == {<<"a">>, <<" ", "a">>, <<" ">>}

Tails == {<<"a">>, <<"a", "\n", "\n", "-">>}

RECURSIVE Terminated(_)
Terminated(n) ==
    IF n = 0 THEN {<<>>}
    ELSE {d \o Delim \o f : d \in DocBodies, f \in Terminated(n - 1)}

\* the files holding exactly n documents
FilesWith(n) ==
    Terminated(n) \cup (IF n = 0 THEN {} ELSE {f \o t : f \in Terminated(n - 1), t \in Tails})

\* the lists of n files holding at most d documents together
RECURSIVE FileLists(_, _)
FileLists(n, d) ==
    IF n = 0 THEN {<<>>}
    ELSE UNION {{<<f>> \o rest : f \in FilesWith(k), rest \in FileLists(n - 1, d - k)} :
                k \in 0..d}

\* chunk_size is 1024 * 1024 in the code, where scratch files run to many
\* chunks; the files here are a few bytes, so smaller sizes are tried as
\* well, which cut them into several chunks.
ChunkSizes == (1..MaxChunk) \cup {1024 * 1024}

\* buffer += chunk.decode('utf-8', errors='ignore'), then the split loop
ChunkStep(st, chunk) == SplitLoop([st EXCEPT !.buffer = @ \o Decode(chunk)])

\* if buffer.strip(): the remaining content is one more document
FileEnd(st) == IF Strip(st.buffer) = <<>> THEN st ELSE HashCheck(st.buffer, st)

\* the first n bytes of a file, and the bytes after them
FirstBytes(f, n) == SubSeq(f, 1, IF n < Len(f) THEN n ELSE Len(f))

AfterBytes(f, n) == SubSeq(f, (IF n < Len(f) THEN n ELSE Len(f)) + 1, Len(f))

\* the while True loop over one open file, to its break
RECURSIVE ReadAll(_, _, _)
ReadAll(st, f, size) ==
    IF f = <<>> THEN st
    ELSE ReadAll(ChunkStep(st, FirstBytes(f, size)), AfterBytes(f, size), size)

\* A plausible slip: the buffer is set up once, before the loop over the
\* files, so what a file leaves in it is still there for the next one.
CarriedBuffer(left) == left

\* buffer = "", for every file opened
FreshBuffer(left) == <<>>

\* A plausible slip: the read loop can be left before the end of the file.
ReadLeftEarly(pos, f) == TRUE

\* f.read(chunk_size) returns b'' -- exactly at the end of the file
ReadReturnsEmpty(pos, f) == pos = Len(f)

\* the for loop over temp_files, each file opened with an empty buffer
RECURSIVE MergeAll(_, _, _)
MergeAll(st, files, size) ==
    IF files = <<>> THEN st
    ELSE MergeAll(FileEnd(ReadAll([st EXCEPT !.buffer = FreshBuffer(@)], Head(files), size)),
                  Tail(files), size)

\* no merge is under way
MergeOff ==
    /\ disk = <<>>
    /\ temp_files = <<>>
    /\ chunk_size = 0
    /\ mpc = "off"
    /\ file_idx = 0
    /\ file_pos = 0
    /\ buffer = <<>>
    /\ exact_hashes = {}
    /\ kept_after_dedup = 0
    /\ out = <<>>
    /\ docs_seen = <<>>
    /\ merge_opened = <<>>
    /\ open_files = {}
    /\ merge_closed = <<>>

MergeInit ==
    /\ disk \in UNION {FileLists(n, MaxDocs) : n \in 0..MaxMergeFiles}
    /\ temp_files = [i \in 1..Len(disk) |-> i]
    /\ chunk_size \in ChunkSizes
    /\ mpc = "idle"
    /\ file_idx = 0
    /\ file_pos = 0
    /\ buffer = <<>>
    /\ exact_hashes = {}
    /\ kept_after_dedup = 0
    /\ out = <<>>
    /\ docs_seen = <<>>
    /\ merge_opened = <<>>
    /\ open_files = {}
    /\ merge_closed = <<>>

\* with open(temp_file, 'rb') as f: buffer = ""  -- the next file of the list
OpenFile ==
    /\ mpc = "idle"
    /\ file_idx < Len(temp_files)
    /\ file_idx' = file_idx + 1
    /\ file_pos' = 0
    /\ buffer' = FreshBuffer(buffer)
    /\ mpc' = "streaming"
    /\ merge_opened' = Append(merge_opened, temp_files[file_idx + 1])
    /\ open_files' = open_files \cup {temp_files[file_idx + 1]}
    /\ UNCHANGED <<disk, temp_files, chunk_size, exact_hashes, kept_after_dedup, out, docs_seen,
                   merge_closed>>
    /\ UNCHANGED notMerge

\* chunk = f.read(chunk_size), not empty: decode it, append it, split
ReadChunk ==
    /\ mpc = "streaming"
    /\ file_pos < Len(disk[temp_files[file_idx]])
    /\ LET unread == AfterBytes(disk[temp_files[file_idx]], file_pos)
           chunk == FirstBytes(unread, chunk_size)
           st == ChunkStep(MergeState, chunk)
       IN  /\ file_pos' = file_pos + Len(chunk)
           /\ buffer' = st.buffer
           /\ exact_hashes' = st.exact_hashes
           /\ kept_after_dedup' = st.kept_after_dedup
           /\ out' = st.out
           /\ docs_seen' = st.docs_seen
    /\ UNCHANGED <<disk, temp_files, chunk_size, mpc, file_idx, merge_opened, open_files,
                   merge_closed>>
    /\ UNCHANGED notMerge

\* chunk empty: break; if buffer.strip(): the remaining content is one more
\* document; the file is closed
EndOfFile ==
    /\ mpc = "streaming"
    /\ ReadReturnsEmpty(file_pos, disk[temp_files[file_idx]])
    /\ merge_closed' = Append(merge_closed, [path |-> temp_files[file_idx], read |-> file_pos,
                                             left |-> buffer])
    /\ open_files' = open_files \ {temp_files[file_idx]}
    /\ LET st == FileEnd(MergeState)
       IN  /\ exact_hashes' = st.exact_hashes
           /\ kept_after_dedup' = st.kept_after_dedup
           /\ out' = st.out
           /\ docs_seen' = st.docs_seen
    /\ mpc' = "idle"
    /\ UNCHANGED <<disk, temp_files, chunk_size, file_idx, file_pos, buffer, merge_opened>>
    /\ UNCHANGED notMerge

\* the for loop over temp_files ends; output_file is closed
MergeReturn ==
    /\ mpc = "idle"
    /\ file_idx = Len(temp_files)
    /\ mpc' = "done"
    /\ UNCHANGED <<disk, temp_files, chunk_size, file_idx, file_pos, buffer,
                   exact_hashes, kept_after_dedup, out, docs_seen, merge_opened, open_files,
                   merge_closed>>
    /\ UNCHANGED notMerge

MergeNext == OpenFile \/ ReadChunk \/ EndOfFile \/ MergeReturn




(***************************************************************************)
(* preprocess: the parallel coordinator, the pool it runs, the merge and   *)
(* the cleanup.  A scratch file is named by the index of its archive.      *)
(***************************************************************************)
\* What process_file gets out of an archive: the conversion records it
\* counts and the documents it keeps.  Kept documents are stripped and hold
\* no blank line (remove_web_boilerplate), so none is blank or holds the
\* delimiter.
ArchiveA == [total |-> 2, docs |-> <<(<<"a">>)>>]

ArchiveAB == [total |-> 3, docs |-> <<(<<"a">>), (<<"b">>)>>]

ArchiveNone == [total |-> 1, docs |-> <<>>]

ArchiveEmpty == [total |-> 0, docs |-> <<>>]

\* the input directories tried, for n archives
Corpora(n) ==
    {[i \in 1..n |-> ArchiveA],
     [i \in 1..n |-> IF i % 2 = 1 THEN ArchiveAB ELSE ArchiveNone],
     [i \in 1..n |-> ArchiveEmpty]}

\* the scratch file process_file leaves for an archive: text + delimiter
\* for every kept document
ScratchOf(archive) ==
    Flatten([k \in 1..Len(archive.docs) |-> Encode(archive.docs[k] \o Delim)])

\* what process_file_worker returns for archive i
WorkerResult(i) ==
    [total |-> wet_files[i].total, kept |-> Len(wet_files[i].docs), temp_file |-> i]

Min(a, b) == IF a < b THEN a ELSE b

Max(a, b) == IF a < b THEN b ELSE a

\* A plausible slip: one worker per CPU, whatever the number of archives.
WorkerCountPerCpu(cpus, files) == cpus

\* num_workers = min(cpu_count(), len(wet_files))
WorkerCount(cpus, files) == Min(cpus, files)

\* the tasks imap_unordered makes of worker_args: chunk c holds the
\* arguments (c - 1) * chunksize + 1 .. c * chunksize
NumChunks == (Len(wet_files) + chunksize - 1) \div chunksize

ChunkFirst(c) == (c - 1) * chunksize + 1

ChunkLast(c) == Min(c * chunksize, Len(wet_files))

ChunkFiles(c) == [k \in 1..(ChunkLast(c) - ChunkFirst(c) + 1) |-> ChunkFirst(c) + k - 1]

\* A plausible slip: imap in place of imap_unordered, which hands out the
\* chunks in the order of worker_args.
NextYieldOrdered(queue, yielded) ==
    IF \E k \in 1..Len(queue) : queue[k].chunk = yielded + 1
    THEN CHOOSE k \in 1..Len(queue) : queue[k].chunk = yielded + 1
    ELSE 0

\* The place in the result queue of the chunk imap_unordered hands out
\* next (0: the iterator has to wait for a worker): the one that arrived
\* first.
NextYield(queue, yielded) == IF queue = <<>> THEN 0 ELSE 1

\* the queue without its k-th element
Without(queue, k) == SubSeq(queue, 1, k - 1) \o SubSeq(queue, k + 1, Len(queue))

\* the chunks the iterator hands out before it has to wait for a worker
RECURSIVE YieldsNow(_, _)
YieldsNow(queue, yielded) ==
    LET k == NextYield(queue, yielded)
    IN  IF k = 0 THEN {}
        ELSE {queue[k].chunk} \cup YieldsNow(Without(queue, k), yielded + 1)

\* the counts and the list of paths the loop body builds
Counts == [total |-> total, kept |-> kept, temp_files |-> temp_files]

\* A plausible slip: kept is fed from the result's total.
AccumulateTotalTwice(acc, result) ==
    [temp_files |-> Append(acc.temp_files, result.temp_file),
     total |-> acc.total + result.total,
     kept |-> acc.kept + result.total]

\* temp_files.append(result['temp_file']); total += result['total'];
\* kept += result['kept']
Accumulate(acc, result) ==
    [temp_files |-> Append(acc.temp_files, result.temp_file),
     total |-> acc.total + result.total,
     kept |-> acc.kept + result.kept]

\* A plausible slip: close() in place of terminate(), which lets a busy
\* worker run on.
ClosePool(ws) ==
    [w \in DOMAIN ws |-> IF ws[w].st = "idle" THEN [ws[w] EXCEPT !.st = "terminated"] ELSE ws[w]]

\* Pool.__exit__: terminate() stops every worker process, busy or not
TerminatePool(ws) == [w \in DOMAIN ws |-> [ws[w] EXCEPT !.st = "terminated"]]

\* os.unlink(path): the file is gone
Unlink(d, path) == [q \in (DOMAIN d) \ {path} |-> d[q]]

\* a file is created or rewritten
WriteFile(d, path, bytes) ==
    [q \in (DOMAIN d) \cup {path} |-> IF q = path THEN bytes ELSE d[q]]

RECURSIVE UnlinkAll(_, _)
UnlinkAll(d, paths) ==
    IF paths = <<>> THEN d ELSE UnlinkAll(Unlink(d, Head(paths)), Tail(paths))

\* ContentDeduplicator(): a fresh hasher, hash set and counter
NewDeduplicator ==
    [buffer |-> <<>>, exact_hashes |-> {}, kept_after_dedup |-> 0, out |-> <<>>,
     docs_seen |-> <<>>]

\* a merge before its first scratch file: the deduplicator, the scratch
\* files opened so far, and whether the merge has raised
MergeStart(dedup) == [dedup |-> dedup, opened |-> <<>>, raised |-> FALSE]

\* A plausible slip: a scratch file that cannot be opened is skipped.
SkipUnopenable(run) == run

\* open(temp_file, 'rb') raises and nothing in the merge catches it
OpenError(run) == [run EXCEPT !.raised = TRUE]

\* the for loop over temp_files on the disk d, a missing file included
RECURSIVE MergeFiles(_, _, _, _)
MergeFiles(run, paths, d, size) ==
    IF run.raised \/ paths = <<>> THEN run
    ELSE IF Head(paths) \notin DOMAIN d
         THEN MergeFiles(OpenError(run), Tail(paths), d, size)
         ELSE MergeFiles([run EXCEPT !.dedup = MergeAll(@, <<d[Head(paths)]>>, size),
                                     !.opened = Append(@, Head(paths))],
                         Tail(paths), d, size)

\* get_kept_count()
get_kept_count(dedup) == dedup.kept_after_dedup

\* get_duplicates_removed(original_kept)
get_duplicates_removed(dedup, original_kept) == original_kept - dedup.kept_after_dedup

\* the documents of a text in which every document ends with the delimiter
RECURSIVE TerminatedDocs(_)
TerminatedDocs(t) ==
    IF ~Contains(t, Delim) THEN <<>>
    ELSE LET parts == SplitOnce(t, Delim)
         IN  <<parts.doc>> \o TerminatedDocs(parts.rest)

\* no run of preprocess is modelled
PreOff ==
    /\ wet_files = <<>>
    /\ cpu_count = 0
    /\ dedup_enabled = FALSE
    /\ pc = "off"
    /\ num_workers = 0
    /\ chunksize = 0
    /\ next_task = 0
    /\ workers = <<>>
    /\ results = <<>>
    /\ n_yielded = 0
    /\ pending = <<>>
    /\ total = 0
    /\ kept = 0
    /\ pp_kept_after_dedup = 0
    /\ duplicates_removed = 0
    /\ summary = <<>>
    /\ exception = "none"
    /\ output_file = "absent"
    /\ unlinks = <<>>
    /\ failed = <<>>
    /\ lost = {}
    /\ merge_opened = <<>>

\* preprocess is entered: wet_files globbed, the counters at 0
PreInit ==
    /\ cpu_count \in 1..MaxCpu
    /\ wet_files \in UNION {Corpora(n) : n \in 0..(IF cpu_count = 1 THEN MaxSerialFiles ELSE MaxFiles)}
    /\ dedup_enabled \in BOOLEAN
    /\ pc = "start"
    /\ num_workers = 0
    /\ chunksize = 0
    /\ next_task = 0
    /\ workers = <<>>
    /\ results = <<>>
    /\ n_yielded = 0
    /\ pending = <<>>
    /\ total = 0
    /\ kept = 0
    /\ pp_kept_after_dedup = 0
    /\ duplicates_removed = 0
    /\ summary = <<>>
    /\ exception = "none"
    /\ output_file = "absent"
    /\ unlinks = <<>>
    /\ failed = <<>>
    /\ lost = {}
    /\ merge_opened = <<>>
    /\ disk = <<>>
    /\ temp_files = <<>>
    /\ chunk_size = 1024 * 1024
    /\ mpc = "off"
    /\ file_idx = 0
    /\ file_pos = 0
    /\ buffer = <<>>
    /\ exact_hashes = {}
    /\ kept_after_dedup = 0
    /\ out = <<>>
    /\ docs_seen = <<>>
    /\ open_files = {}
    /\ merge_closed = <<>>

mergeResultVars == <<mpc, file_idx, file_pos, buffer, exact_hashes, kept_after_dedup,
                     out, docs_seen, open_files, merge_closed>>

\* num_workers = min(cpu_count(), len(wet_files)); Pool(num_workers), which
\* raises ValueError for 0 processes; chunksize = max(1, len // (workers * 4))
CreatePool ==
    /\ pc = "start"
    /\ num_workers' = WorkerCount(cpu_count, Len(wet_files))
    /\ IF num_workers' = 0
       THEN /\ exception' = "ValueError"
            /\ pc' = "raised"
            /\ UNCHANGED <<workers, chunksize, next_task>>
       ELSE /\ workers' = [w \in 1..num_workers' |-> [st |-> "idle", chunk |-> 0, file |-> 0]]
            /\ chunksize' = Max(1, Len(wet_files) \div (num_workers' * 4))
            /\ next_task' = 1
            /\ pc' = "collect"
            /\ UNCHANGED exception
    /\ UNCHANGED <<wet_files, cpu_count, dedup_enabled, results, n_yielded, pending, total,
                   kept, pp_kept_after_dedup, duplicates_removed, summary, output_file,
                   unlinks, failed>>
    /\ UNCHANGED <<mergeVars, notPre, faultVars>>

\* a free worker takes the next chunk and calls process_file_worker on its
\* first argument, which creates the scratch file
WorkerTake(w) ==
    /\ workers[w].st = "idle"
    /\ next_task <= NumChunks
    /\ workers' = [workers EXCEPT ![w] = [st |-> "busy", chunk |-> next_task,
                                          file |-> ChunkFirst(next_task)]]
    /\ disk' = WriteFile(disk, ChunkFirst(next_task), <<>>)
    /\ next_task' = next_task + 1
    /\ UNCHANGED <<wet_files, cpu_count, dedup_enabled, pc, num_workers, chunksize, results,
                   n_yielded, pending, total, kept, pp_kept_after_dedup, duplicates_removed,
                   summary, exception, output_file, unlinks, failed>>
    /\ UNCHANGED <<temp_files, chunk_size, mergeResultVars, notPre, faultVars>>

\* process_file_worker returns for the worker's file: the scratch file is
\* written and closed.  After the last file of the chunk the chunk's results
\* go to the result queue; before it, the worker goes on to the next file.
WorkerFinish(w) ==
    /\ workers[w].st = "busy"
    /\ LET i == workers[w].file
           c == workers[w].chunk
           written == WriteFile(disk, i, ScratchOf(wet_files[i]))
       IN  IF i = ChunkLast(c)
           THEN /\ disk' = written
                /\ results' = Append(results, [chunk |-> c, ok |-> TRUE, exc |-> "none"])
                /\ workers' = [workers EXCEPT ![w] = [st |-> "idle", chunk |-> 0, file |-> 0]]
           ELSE /\ disk' = WriteFile(written, i + 1, <<>>)
                /\ workers' = [workers EXCEPT ![w].file = i + 1]
                /\ UNCHANGED results
    /\ UNCHANGED <<wet_files, cpu_count, dedup_enabled, pc, num_workers, chunksize, next_task,
                   n_yielded, pending, total, kept, pp_kept_after_dedup, duplicates_removed,
                   summary, exception, output_file, unlinks, failed>>
    /\ UNCHANGED <<temp_files, chunk_size, mergeResultVars, notPre, faultVars>>

\* process_file raises in the worker: the handler closes and unlinks the
\* scratch file and re-raises; the chunk ends there and the exception goes
\* to the result queue in place of the chunk's results
WorkerRaise(w) ==
    /\ workers[w].st = "busy"
    /\ \E e \in Exceptions :
          /\ results' = Append(results, [chunk |-> workers[w].chunk, ok |-> FALSE, exc |-> e])
          /\ failed' = Append(failed, [file |-> workers[w].file, exc |-> e])
    /\ disk' = Unlink(disk, workers[w].file)
    /\ unlinks' = Append(unlinks, workers[w].file)
    /\ workers' = [workers EXCEPT ![w] = [st |-> "idle", chunk |-> 0, file |-> 0]]
    /\ UNCHANGED <<wet_files, cpu_count, dedup_enabled, pc, num_workers, chunksize, next_task,
                   n_yielded, pending, total, kept, pp_kept_after_dedup, duplicates_removed,
                   summary, exception, output_file>>
    /\ UNCHANGED <<temp_files, chunk_size, mergeResultVars, notPre, faultVars>>

\* the iterator hands the loop the results of the next chunk
FetchChunk ==
    /\ pc = "collect"
    /\ pending = <<>>
    /\ NextYield(results, n_yielded) # 0
    /\ LET k == NextYield(results, n_yielded)
       IN  /\ results[k].ok
           /\ pending' = ChunkFiles(results[k].chunk)
           /\ results' = Without(results, k)
    /\ n_yielded' = n_yielded + 1
    /\ UNCHANGED <<wet_files, cpu_count, dedup_enabled, pc, num_workers, chunksize, next_task,
                   workers, total, kept, pp_kept_after_dedup, duplicates_removed, summary,
                   exception, output_file, unlinks, failed>>
    /\ UNCHANGED <<mergeVars, notPre, faultVars>>

\* the iterator raises a worker's exception in the loop: it leaves the
\* progress bar and the pool's with block, whose exit terminates the pool,
\* and then preprocess
FetchRaises ==
    /\ pc = "collect"
    /\ pending = <<>>
    /\ NextYield(results, n_yielded) # 0
    /\ LET k == NextYield(results, n_yielded)
       IN  /\ ~results[k].ok
           /\ exception' = results[k].exc
           /\ results' = Without(results, k)
    /\ n_yielded' = n_yielded + 1
    /\ workers' = TerminatePool(workers)
    /\ pc' = "raised"
    /\ UNCHANGED <<wet_files, cpu_count, dedup_enabled, num_workers, chunksize, next_task,
                   pending, total, kept, pp_kept_after_dedup, duplicates_removed, summary,
                   output_file, unlinks, failed>>
    /\ UNCHANGED <<mergeVars, notPre, faultVars>>

\* the loop body, for one result
CollectItem ==
    /\ pc = "collect"
    /\ pending # <<>>
    /\ LET acc == Accumulate(Counts, WorkerResult(Head(pending)))
       IN  /\ temp_files' = acc.temp_files
           /\ total' = acc.total
           /\ kept' = acc.kept
    /\ pending' = Tail(pending)
    /\ UNCHANGED <<wet_files, cpu_count, dedup_enabled, pc, num_workers, chunksize, next_task,
                   workers, results, n_yielded, pp_kept_after_dedup, duplicates_removed,
                   summary, exception, output_file, unlinks, failed>>
    /\ UNCHANGED <<disk, chunk_size, mergeResultVars, notPre, faultVars>>

\* the iterator is exhausted: the loop ends and the pool's with block is
\* left, whose exit terminates the pool
PoolExit ==
    /\ pc = "collect"
    /\ pending = <<>>
    /\ n_yielded = NumChunks
    /\ workers' = TerminatePool(workers)
    /\ pc' = "merge"
    /\ UNCHANGED <<wet_files, cpu_count, dedup_enabled, num_workers, chunksize, next_task,
                   results, n_yielded, pending, total, kept, pp_kept_after_dedup,
                   duplicates_removed, summary, exception, output_file, unlinks, failed>>
    /\ UNCHANGED <<mergeVars, notPre, faultVars>>

\* config["deduplication_enabled"]: a new ContentDeduplicator merges the
\* scratch files into output_file; then the two counts are taken from it
MergeDedup ==
    /\ pc = "merge"
    /\ dedup_enabled
    /\ LET run == MergeFiles(MergeStart(NewDeduplicator), temp_files, disk, chunk_size)
           deduplicator == run.dedup
       IN  /\ ~run.raised
           /\ merge_opened' = run.opened
           /\ buffer' = deduplicator.buffer
           /\ exact_hashes' = deduplicator.exact_hashes
           /\ kept_after_dedup' = deduplicator.kept_after_dedup
           /\ out' = deduplicator.out
           /\ docs_seen' = deduplicator.docs_seen
           /\ pp_kept_after_dedup' = get_duplicates_removed(deduplicator, kept)
           /\ duplicates_removed' = get_kept_count(deduplicator)
    /\ mpc' = "done"
    /\ file_idx' = Len(temp_files)
    /\ output_file' = "written"
    /\ pc' = "cleanup"
    /\ UNCHANGED <<wet_files, cpu_count, dedup_enabled, num_workers, chunksize, next_task,
                   workers, results, n_yielded, pending, total, kept, summary, exception,
                   unlinks, failed>>
    /\ UNCHANGED <<disk, temp_files, chunk_size, file_pos, lost, open_files, merge_closed, notPre>>

\* deduplication disabled: the scratch files are copied to output_file
MergeConcat ==
    /\ pc = "merge"
    /\ ~dedup_enabled
    /\ pp_kept_after_dedup' = kept
    /\ duplicates_removed' = 0
    /\ LET run == MergeFiles(MergeStart(NewDeduplicator), temp_files, disk, chunk_size)
       IN  /\ ~run.raised
           /\ merge_opened' = run.opened
           /\ out' = TerminatedDocs(Decode(Flatten([k \in 1..Len(run.opened) |->
                                                      disk[run.opened[k]]])))
    /\ output_file' = "written"
    /\ pc' = "cleanup"
    /\ UNCHANGED <<wet_files, cpu_count, dedup_enabled, num_workers, chunksize, next_task,
                   workers, results, n_yielded, pending, total, kept, summary, exception,
                   unlinks, failed>>
    /\ UNCHANGED <<disk, temp_files, chunk_size, mpc, file_idx, file_pos, buffer,
                   exact_hashes, kept_after_dedup, docs_seen, lost, open_files, merge_closed, notPre>>

\* a scratch file the merge is about to read goes missing: removed from
\* the temporary directory by something outside the run
ScratchLost(path) ==
    /\ pc = "merge"
    /\ path \in DOMAIN disk
    /\ disk' = Unlink(disk, path)
    /\ lost' = lost \cup {path}
    /\ UNCHANGED <<wet_files, cpu_count, dedup_enabled, pc, num_workers, chunksize, next_task,
                   workers, results, n_yielded, pending, total, kept, pp_kept_after_dedup,
                   duplicates_removed, summary, exception, output_file, unlinks, failed,
                   merge_opened>>
    /\ UNCHANGED <<temp_files, chunk_size, mergeResultVars, notPre>>

\* the merge or the copy comes to a scratch file that cannot be opened:
\* open() raises FileNotFoundError, which leaves the loop, the block of
\* output_file (written up to there) and preprocess
ScratchOpenRaises ==
    /\ pc = "merge"
    /\ LET run == MergeFiles(MergeStart(NewDeduplicator), temp_files, disk, chunk_size)
       IN  /\ run.raised
           /\ merge_opened' = run.opened
           /\ IF dedup_enabled
              THEN /\ buffer' = run.dedup.buffer
                   /\ exact_hashes' = run.dedup.exact_hashes
                   /\ kept_after_dedup' = run.dedup.kept_after_dedup
                   /\ out' = run.dedup.out
                   /\ docs_seen' = run.dedup.docs_seen
                   /\ mpc' = "raised"
                   /\ file_idx' = Len(run.opened) + 1
              ELSE /\ out' = TerminatedDocs(Decode(Flatten([k \in 1..Len(run.opened) |->
                                                              disk[run.opened[k]]])))
                   /\ UNCHANGED <<buffer, exact_hashes, kept_after_dedup, docs_seen, mpc,
                                  file_idx>>
    /\ exception' = "FileNotFoundError"
    /\ output_file' = "written"
    /\ pc' = "raised"
    /\ UNCHANGED <<wet_files, cpu_count, dedup_enabled, num_workers, chunksize, next_task,
                   workers, results, n_yielded, pending, total, kept, pp_kept_after_dedup,
                   duplicates_removed, summary, unlinks, failed, lost>>
    /\ UNCHANGED <<disk, temp_files, chunk_size, file_pos, open_files, merge_closed, notPre>>

\* the merge raises (output_file or a scratch file cannot be opened or
\* read): the exception leaves preprocess, past the cleanup
MergeRaises ==
    /\ pc = "merge"
    /\ exception' = "OSError"
    /\ output_file' \in {"absent", "written"}
    /\ pc' = "raised"
    /\ UNCHANGED <<wet_files, cpu_count, dedup_enabled, num_workers, chunksize, next_task,
                   workers, results, n_yielded, pending, total, kept, pp_kept_after_dedup,
                   duplicates_removed, summary, unlinks, failed>>
    /\ UNCHANGED <<mergeVars, notPre, faultVars>>

\* for temp_file in temp_files: os.unlink(temp_file)
Cleanup ==
    /\ pc = "cleanup"
    /\ disk' = UnlinkAll(disk, temp_files)
    /\ unlinks' = unlinks \o temp_files
    /\ pc' = "summary"
    /\ UNCHANGED <<wet_files, cpu_count, dedup_enabled, num_workers, chunksize, next_task,
                   workers, results, n_yielded, pending, total, kept, pp_kept_after_dedup,
                   duplicates_removed, summary, exception, output_file, failed>>
    /\ UNCHANGED <<temp_files, chunk_size, mergeResultVars, notPre, faultVars>>

\* the final summary: four counts, then the retention rate, whose division
\* by total raises ZeroDivisionError when no document was seen
Summary ==
    /\ pc = "summary"
    /\ summary' = <<[total |-> total, after_filtering |-> kept,
                     after_exact_dedup |-> pp_kept_after_dedup,
                     exact_duplicates_removed |-> duplicates_removed]>>
    /\ IF total = 0
       THEN exception' = "ZeroDivisionError" /\ pc' = "raised"
       ELSE pc' = "done" /\ UNCHANGED exception
    /\ UNCHANGED <<wet_files, cpu_count, dedup_enabled, num_workers, chunksize, next_task,
                   workers, results, n_yielded, pending, total, kept, pp_kept_after_dedup,
                   duplicates_removed, output_file, unlinks, failed>>
    /\ UNCHANGED <<mergeVars, notPre, faultVars>>

PreNext ==
    \/ CreatePool
    \/ \E w \in DOMAIN workers : WorkerTake(w)
    \/ \E w \in DOMAIN workers : WorkerFinish(w)
    \/ \E w \in DOMAIN workers : WorkerRaise(w)
    \/ FetchChunk
    \/ FetchRaises
    \/ CollectItem
    \/ PoolExit
    \/ MergeDedup
    \/ MergeConcat
    \/ \E path \in DOMAIN disk : ScratchLost(path)
    \/ ScratchOpenRaises
    \/ MergeRaises
    \/ Cleanup
    \/ Summary

(***************************************************************************)
(* The configuration modules.  A dictionary is a function from keys to     *)
(* values; a float is the pair <<numerator, denominator>>; a list value is *)
(* a reference [ref |-> r] to the list object heap[r], as Python           *)
(* dictionaries hold references to their values.                           *)
(***************************************************************************)
\* cleaning/config.py
DEFAULT_CONFIG ==
    [min_text_length |-> 500,
     max_text_length |-> 20000,
     english_threshold |-> <<2, 5>>,
     content_ratio_threshold |-> <<1, 5>>,
     printable_ratio_threshold |-> <<19, 20>>,
     latin_char_threshold |-> <<19, 20>>,
     unique_lines_threshold |-> <<1, 2>>,
     word_diversity_threshold |-> <<3, 10>>,
     avg_words_min |-> 5,
     avg_words_max |-> 50,
     batch_size |-> 500,
     deduplication_enabled |-> TRUE]

\* preparation/config.py; special_tokens is the list object 1
PREPARATION_CONFIG ==
    [min_vocab_frequency |-> 250,
     max_sequence_length |-> 32,
     train_split |-> <<4, 5>>,
     validation_split |-> <<1, 10>>,
     test_split |-> <<1, 10>>,
     special_tokens |-> [ref |-> 1],
     tokenization_method |-> "whitespace"]

\* the list objects that exist when the modules are loaded
LoadedHeap == (1 :> <<"<PAD>", "<UNK>", "<START>", "<END>">>)

\* the keys whose value is a list
ListKeys == {"special_tokens"}

\* dict.copy(): a new dictionary with the same keys, each bound to the same
\* value object
DictCopy(d) == [k \in DOMAIN d |-> d[k]]

\* what a reader of dictionary d sees: every list key followed to its
\* contents
Values(d, hp) == [k \in DOMAIN d |-> IF k \in ListKeys THEN hp[d[k].ref] ELSE d[k]]

\* the values a caller puts in place of a default, per key
Overrides ==
    [min_text_length |-> 1, deduplication_enabled |-> FALSE, min_vocab_frequency |-> 1]

\* no configuration module is modelled
CfgOff ==
    /\ module_configs = <<>>
    /\ heap = <<>>
    /\ held = <<>>
    /\ last_returned = <<>>

\* the two modules are loaded
CfgInit ==
    /\ module_configs = [cleaning |-> DEFAULT_CONFIG, preparation |-> PREPARATION_CONFIG]
    /\ heap = LoadedHeap
    /\ held = <<>>
    /\ last_returned = <<>>

\* get_cleaning_config() or get_preparation_config() is called
GetConfig(getter) ==
    /\ Len(held) < MaxHeld
    /\ LET d == DictCopy(module_configs[getter])
       IN  /\ held' = Append(held, [getter |-> getter, dict |-> d])
           /\ last_returned' = <<[getter |-> getter, values |-> Values(d, heap)]>>
    /\ UNCHANGED <<module_configs, heap>>
    /\ UNCHANGED notCfg

get_cleaning_config == GetConfig("cleaning")

get_preparation_config == GetConfig("preparation")

\* a caller binds a key of a dictionary it holds to another value:
\* cfg[key] = value
SetItem(h) ==
    /\ \E key \in DOMAIN Overrides \cap DOMAIN held[h].dict :
          /\ held[h].dict[key] # Overrides[key]
          /\ held' = [held EXCEPT ![h].dict[key] = Overrides[key]]
    /\ UNCHANGED <<module_configs, heap, last_returned>>
    /\ UNCHANGED notCfg

\* a caller binds a list key to a new list: cfg[key] = ['<PAD>']
SetItemList(h) ==
    /\ \E key \in ListKeys \cap DOMAIN held[h].dict :
          LET r == Len(heap) + 1
          IN  /\ r <= MaxHeld + 1
              /\ heap' = Append(heap, <<"<PAD>">>)
              /\ held' = [held EXCEPT ![h].dict[key] = [ref |-> r]]
    /\ UNCHANGED <<module_configs, last_returned>>
    /\ UNCHANGED notCfg

\* a caller changes a list it reaches through a dictionary it holds:
\* cfg[key].append('<MASK>')
AppendToList(h) ==
    /\ \E key \in ListKeys \cap DOMAIN held[h].dict :
          LET r == held[h].dict[key].ref
          IN  /\ Len(heap[r]) < MaxTokens
              /\ heap' = [heap EXCEPT ![r] = Append(@, "<MASK>")]
    /\ UNCHANGED <<module_configs, held, last_returned>>
    /\ UNCHANGED notCfg

\* a caller lets go of the dictionary it got first
Release ==
    /\ held # <<>>
    /\ held' = Tail(held)
    /\ UNCHANGED <<module_configs, heap, last_returned>>
    /\ UNCHANGED notCfg

CfgNext ==
    \/ get_cleaning_config
    \/ get_preparation_config
    \/ \E h \in DOMAIN held : SetItem(h)
    \/ \E h \in DOMAIN held : SetItemList(h)
    \/ \E h \in DOMAIN held : AppendToList(h)
    \/ Release

(***************************************************************************)
(* clean_web_content and remove_web_boilerplate (web_cleaner.py), with the *)
(* patterns of patterns.py they apply.  The texts tried are made of the    *)
(* characters of WebChars; a pattern is known by a name, and MatchLen says *)
(* how many characters it matches at the start of a text (0: no match      *)
(* there; no pattern of the library matches the empty text).               *)
(***************************************************************************)
\* a letter, a letter outside ASCII, the white space, and the characters the
\* patterns look for
WebChars == {"a", "U", " ", "\n", "\t", "-", "*", "|", "<", ">"}

\* the number of elements at the start of s that are in S
RunLen(s, S) ==
    IF \A k \in 1..Len(s) : s[k] \in S THEN Len(s)
    ELSE (CHOOSE k \in 1..Len(s) : s[k] \notin S /\ \A j \in 1..(k - 1) : s[j] \in S) - 1

\* s[n:]
Drop(s, n) == SubSeq(s, n + 1, Len(s))

\* COMBINED_REMOVAL_PATTERN at the start of s.  Of its alternatives only
\* <[^>]+> can match a text of WebChars: the others need a brace, a digit, a
\* dot or a word of the navigation, legal or advertising vocabulary.
RemovalMatch(s) ==
    IF Len(s) >= 3 /\ s[1] = "<" /\ s[2] # ">" /\ \E k \in 3..Len(s) : s[k] = ">"
    THEN CHOOSE k \in 3..Len(s) : s[k] = ">" /\ \A j \in 3..(k - 1) : s[j] # ">"
    ELSE 0

\* [|...]+ : of the decorative glyphs the texts hold "|"
GlyphsMatch(s) == RunLen(s, {"|"})

\* \s*[-_=]{3,}\s*
DividerMatch(s) ==
    LET before == RunLen(s, Whitespace)
        rule == RunLen(Drop(s, before), {"-"})
        after == RunLen(Drop(s, before + rule), Whitespace)
    IN  IF rule >= 3 THEN before + rule + after ELSE 0

\* \*{3,}
AsterisksMatch(s) == IF RunLen(s, {"*"}) >= 3 THEN RunLen(s, {"*"}) ELSE 0

\* [ \t]+
BlanksMatch(s) == RunLen(s, {" ", "\t"})

\* \n\s*\n\s*\n+ : from a newline, through white space that holds at least
\* three newlines, to the last of them
NewlinesMatch(s) ==
    LET run == RunLen(s, Whitespace)
        newlines == {k \in 1..run : s[k] = "\n"}
    IN  IF s # <<>> /\ s[1] = "\n" /\ Cardinality(newlines) >= 3
        THEN CHOOSE k \in newlines : \A j \in newlines : j <= k
        ELSE 0

MatchLen(pattern, s) ==
    CASE pattern = "removal" -> RemovalMatch(s)
      [] pattern = "glyphs" -> GlyphsMatch(s)
      [] pattern = "divider" -> DividerMatch(s)
      [] pattern = "asterisks" -> AsterisksMatch(s)
      [] pattern = "blanks" -> BlanksMatch(s)
      [] pattern = "newlines" -> NewlinesMatch(s)

\* pattern.sub(replacement, s): the matches taken from the left, none
\* overlapping another
RECURSIVE Sub(_, _, _)
Sub(pattern, replacement, s) ==
    LET starts == {i \in 1..Len(s) : MatchLen(pattern, Drop(s, i - 1)) > 0}
    IN  IF starts = {} THEN s
        ELSE LET i == CHOOSE k \in starts : \A j \in starts : k <= j
                 n == MatchLen(pattern, Drop(s, i - 1))
             IN  SubSeq(s, 1, i - 1) \o replacement
                   \o Sub(pattern, replacement, Drop(s, i - 1 + n))

\* patterns.py: the (pattern, replacement) pairs, in list order
CLEANUP_PATTERNS ==
    <<[pattern |-> "glyphs", replacement |-> <<" ">>],
      [pattern |-> "divider", replacement |-> <<"\n">>],
      [pattern |-> "asterisks", replacement |-> <<"\n">>],
      [pattern |-> "blanks", replacement |-> <<" ">>],
      [pattern |-> "newlines", replacement |-> <<"\n", "\n">>]>>

\* for pattern, replacement in rules: text = pattern.sub(replacement, text)
RECURSIVE ApplyRules(_, _)
ApplyRules(rules, t) ==
    IF rules = <<>> THEN t
    ELSE ApplyRules(Tail(rules), Sub(Head(rules).pattern, Head(rules).replacement, t))

\* A plausible slip: the length is taken of the encoded text.
TooShortInBytes(t) == Len(Encode(t)) < 100

\* len(text) < 100
TooShortToClean(t) == Len(t) < 100

clean_web_content(t) ==
    IF TooShortToClean(t) THEN t
    ELSE ApplyRules(CLEANUP_PATTERNS, Sub("removal", <<" ">>, t))

\* [line.strip() for line in lines if line.strip()]
NonEmptyLines(lines) ==
    SelectSeq([i \in 1..Len(lines) |-> Strip(lines[i])], LAMBDA l : l # <<>>)

\* A plausible slip: the band of the older snapshot, int(n * 0.15) and
\* int(n * 0.85).
TrimBandFifteen(ls) ==
    LET n == Len(ls)
    IN  IF n > 10 THEN SubSeq(ls, (n * 15) \div 100 + 1, (n * 85) \div 100) ELSE ls

\* if more than 10 lines: non_empty_lines[n // 7 : n - n // 7]
TrimBand(ls) ==
    LET n == Len(ls)
    IN  IF n > 10 THEN SubSeq(ls, n \div 7 + 1, n - n \div 7) ELSE ls

remove_web_boilerplate(t) ==
    Join(TrimBand(NonEmptyLines(SplitOn(clean_web_content(t), "\n"))), <<"\n">>)

\* material for the patterns, set inside a text of about 100 characters
Snippets ==
    SeqsUpTo({"-", " ", "\n", "*"}, MaxSnippet)
      \cup {<<"<", "a", ">">>, <<"<", ">">>, <<"<", "<", ">", ">">>, <<"<", "\n", ">", "|">>,
            <<"|", "|">>, <<"\t", " ", "\t">>, <<" ", "-", "-", "-", "-", "\n">>,
            <<"\n", " ", "\n", "\t", "\n", " ">>, <<"-", "-", "*", "*", "*", "-">>,
            <<"U">>, <<"U", "-", "-", "-">>}

\* a text of n characters around a snippet
Around(snippet, n) == <<"a">> \o snippet \o Times("a", n - 1 - Len(snippet))

\* line i of a text of many lines: i letters, dressed after the style
StyledLine(i, style) ==
    CASE style = "plain" -> Times("a", i)
      [] style = "indented" -> <<" ", "\t">> \o Times("a", i) \o <<" ">>
      [] style = "spaced" -> IF i % 3 = 0 THEN <<" ">> ELSE Times("a", i)
      [] style = "short" -> IF i % 2 = 0 THEN <<"a">> ELSE Times("a", i)

ManyLines(n, style) == Join([i \in 1..n |-> StyledLine(i, style)], <<"\n">>)

\* The texts tried: every text of up to MaxShort characters; texts of 99,
\* 100 and 101 characters around each snippet; texts of up to MaxLines
\* lines, which run from under to over 100 characters.
WebTexts ==
    SeqsUpTo({"a", " ", "\n", "\t", "-", "U"}, MaxShort)
      \cup {Around(snippet, n) : snippet \in Snippets, n \in 99..101}
      \cup {ManyLines(n, style) : n \in 0..MaxLines,
                                  style \in {"plain", "indented", "spaced", "short"}}

\* no call of the web cleaner is modelled
WebOff ==
    /\ web_text = <<>>
    /\ web_cleaned = <<"off">>
    /\ web_result = <<"off">>

WebInit ==
    /\ web_text \in WebTexts
    /\ web_cleaned = <<>>
    /\ web_result = <<>>

\* cleaned = clean_web_content(text)
CallCleanWebContent ==
    /\ web_cleaned = <<>>
    /\ web_cleaned' = <<clean_web_content(web_text)>>
    /\ UNCHANGED <<web_text, web_result>>
    /\ UNCHANGED notWeb

\* result = remove_web_boilerplate(text)
CallRemoveWebBoilerplate ==
    /\ web_result = <<>>
    /\ web_result' = <<remove_web_boilerplate(web_text)>>
    /\ UNCHANGED <<web_text, web_cleaned>>
    /\ UNCHANGED notWeb

WebNext == CallCleanWebContent \/ CallRemoveWebBoilerplate

(***************************************************************************)
(* is_valid_encoding (content_validation.py), called on its own with None, *)
(* a str or a bytes object.                                                *)
(***************************************************************************)
\* the characters of the str arguments: a letter, a control character of
\* one byte, a letter of two bytes, and a lone surrogate
ArgChars == {"e", "NUL", "U", "S"}

\* the bytes of the bytes arguments: a letter, a byte of a two-byte
\* character, and a byte over 0x7E
ArgBytes == {"e", "U1", "x80"}

\* the thresholds tried: 0.95 of DEFAULT_CONFIG, 0.5 and 0
EncConfigs == [printable_ratio_threshold : {<<19, 20>>, <<1, 2>>, <<0, 1>>}]

\* the bytes is_valid_encoding counts: text.encode for a str, the argument
\* itself otherwise
TextBytes(type, value) == IF type = "str" THEN Encode(value) ELSE value

\* printable_count / total_chars > config["printable_ratio_threshold"]
RatioAbove(printable_count, total_chars, cfg) ==
    printable_count * cfg.printable_ratio_threshold[2]
      > cfg.printable_ratio_threshold[1] * total_chars

\* how a call is_valid_encoding(text, config) ends: 'not text' holds for
\* None and for an empty str or bytes; the division raises when the bytes
\* counted are none
IsValidEncodingOutcome(type, value, cfg) ==
    IF type = "NoneType" \/ value = <<>> THEN "False"
    ELSE LET text_bytes == TextBytes(type, value)
             printable_count == CountIn(text_bytes, PrintableBytes)
             total_chars == Len(text_bytes)
         IN  IF total_chars = 0 THEN "ZeroDivisionError"
             ELSE IF RatioAbove(printable_count, total_chars, cfg) THEN "True"
             ELSE "False"

\* no call of is_valid_encoding on its own is modelled
EncOff ==
    /\ enc_type = "off"
    /\ enc_value = <<>>
    /\ enc_config = <<>>
    /\ enc_result = "off"

EncInit ==
    /\ enc_type \in {"NoneType", "str", "bytes"}
    /\ enc_value \in (CASE enc_type = "NoneType" -> {<<>>}
                        [] enc_type = "str" ->
                             SeqsUpTo(ArgChars, MaxArg)
                               \cup {Times("e", 19) \o <<c>> : c \in ArgChars}
                        [] enc_type = "bytes" ->
                             SeqsUpTo(ArgBytes, MaxArg)
                               \cup {Times("e", 19) \o <<b>> : b \in ArgBytes})
    /\ enc_config \in EncConfigs
    /\ enc_result = "none"

\* result = is_valid_encoding(text, config)
CallIsValidEncoding ==
    /\ enc_result = "none"
    /\ enc_result' = IsValidEncodingOutcome(enc_type, enc_value, enc_config)
    /\ UNCHANGED <<enc_type, enc_value, enc_config>>
    /\ UNCHANGED notEnc

EncNext == CallIsValidEncoding

(***************************************************************************)
(* The merge as preprocess calls it (cleaner.py line 117): the pool is     *)
(* done, and the scratch files are those the workers wrote, one per        *)
(* archive, holding text + delimiter for every document kept.  A kept      *)
(* document is a text remove_web_boilerplate returned.                     *)
(***************************************************************************)
\* texts of a line or of several lines, with and without a character of two
\* bytes and a rule of three dashes
DocCandidates ==
    {<<"a">>, <<"U">>, <<"a", "U">>, <<"a", "\n", "a">>, <<"a", "\n", "\n", "a">>,
     <<" ", "a">>, <<"a", "\n", "U", "\n", "-", "-", "-">>}

\* the candidates that are a result of remove_web_boilerplate: being under
\* 100 characters they are returned as they are if no line of theirs is
\* dropped or stripped
KeptDocs == {d \in DocCandidates : remove_web_boilerplate(d) = d}

\* the archives of which process_file keeps the documents ds
ArchiveOf(ds) == [total |-> Len(ds) + 1, docs |-> ds]

\* the lists of n archives of which d documents are kept in all
RECURSIVE ArchiveLists(_, _)
ArchiveLists(n, d) ==
    IF n = 0 THEN (IF d = 0 THEN {<<>>} ELSE {})
    ELSE UNION {{<<ArchiveOf(ds)>> \o rest :
                    ds \in {q \in SeqsUpTo(KeptDocs, k) : Len(q) = k},
                    rest \in ArchiveLists(n - 1, d - k)} : k \in 0..d}

RECURSIVE SumTotal(_)
\* the sum of the per-file total values
SumTotal(files) == IF files = <<>> THEN 0 ELSE Head(files).total + SumTotal(Tail(files))

RECURSIVE SumKept(_)
\* the sum of the per-file kept values
SumKept(files) == IF files = <<>> THEN 0 ELSE Len(Head(files).docs) + SumKept(Tail(files))

\* preprocess on one CPU has left the pool's with block: every archive has
\* its scratch file, the counts are summed, and merge_and_deduplicate is
\* entered on a new ContentDeduplicator
StreamInit ==
    /\ wet_files \in UNION {ArchiveLists(n, d) : n \in 1..MaxStreamFiles, d \in 0..MaxStreamDocs}
    /\ cpu_count = 1
    /\ dedup_enabled = TRUE
    /\ pc = "merge"
    /\ num_workers = 1
    /\ chunksize = 1
    /\ next_task = Len(wet_files) + 1
    /\ workers = <<[st |-> "terminated", chunk |-> 0, file |-> 0]>>
    /\ results = <<>>
    /\ n_yielded = Len(wet_files)
    /\ pending = <<>>
    /\ total = SumTotal(wet_files)
    /\ kept = SumKept(wet_files)
    /\ pp_kept_after_dedup = 0
    /\ duplicates_removed = 0
    /\ summary = <<>>
    /\ exception = "none"
    /\ output_file = "absent"
    /\ unlinks = <<>>
    /\ failed = <<>>
    /\ lost = {}
    /\ disk = [i \in 1..Len(wet_files) |-> ScratchOf(wet_files[i])]
    /\ temp_files = [i \in 1..Len(wet_files) |-> i]
    /\ chunk_size \in ChunkSizes
    /\ mpc = "idle"
    /\ file_idx = 0
    /\ file_pos = 0
    /\ buffer = <<>>
    /\ exact_hashes = {}
    /\ kept_after_dedup = 0
    /\ out = <<>>
    /\ docs_seen = <<>>
    /\ merge_opened = <<>>
    /\ open_files = {}
    /\ merge_closed = <<>>

(***************************************************************************)
(* One ContentDeduplicator object over several merge_and_deduplicate       *)
(* calls.  The hash set and the counter are attributes set in __init__;    *)
(* the output file is opened for writing, and so emptied, in every call.   *)
(***************************************************************************)
\* no ContentDeduplicator object is followed over several calls
ReuseOff ==
    /\ instance = <<>>
    /\ calls = <<>>

\* ContentDeduplicator(): self.exact_hashes = set(); self.kept_after_dedup = 0
Construct == [exact_hashes |-> {}, kept_after_dedup |-> 0, calls_made |-> 0]

ReuseInit ==
    /\ instance = Construct
    /\ calls = <<>>

\* the lists of scratch files handed to one call
CallFileLists == FileLists(1, 2)

\* merge_and_deduplicate is entered: output_file is opened with 'w'; the
\* body reads and writes self.exact_hashes and self.kept_after_dedup as the
\* object holds them
EnterMerge(obj) ==
    [buffer |-> <<>>, exact_hashes |-> obj.exact_hashes,
     kept_after_dedup |-> obj.kept_after_dedup, out |-> <<>>, docs_seen |-> <<>>]

\* obj.merge_and_deduplicate(files, output_file), then obj.get_kept_count()
CallMerge(files) ==
    /\ Len(calls) < MaxCalls
    /\ LET st == MergeAll(EnterMerge(instance), files, 1024 * 1024)
       IN  /\ instance' = [exact_hashes |-> st.exact_hashes,
                           kept_after_dedup |-> st.kept_after_dedup,
                           calls_made |-> instance.calls_made + 1]
           /\ calls' = Append(calls, [files |-> files,
                                      nth |-> instance.calls_made + 1,
                                      out |-> st.out,
                                      kept_count |-> get_kept_count(st)])
    /\ UNCHANGED notReuse

\* deduplicator = ContentDeduplicator(), as preprocess does before its call
NewInstance ==
    /\ instance.calls_made > 0
    /\ Len(calls) < MaxCalls
    /\ instance' = Construct
    /\ UNCHANGED calls
    /\ UNCHANGED notReuse

ReuseNext == (\E files \in CallFileLists : CallMerge(files)) \/ NewInstance

InitCfg == MergeOff /\ WorkerOff /\ GoodOff /\ PreOff /\ ReuseOff /\ WebOff /\ EncOff /\ CfgInit

InitReuse == MergeOff /\ WorkerOff /\ GoodOff /\ PreOff /\ CfgOff /\ WebOff /\ EncOff /\ ReuseInit

SpecReuse == InitReuse /\ [][ReuseNext]_vars

InitWeb == MergeOff /\ WorkerOff /\ GoodOff /\ PreOff /\ CfgOff /\ ReuseOff /\ EncOff /\ WebInit

InitStream == WorkerOff /\ GoodOff /\ CfgOff /\ ReuseOff /\ WebOff /\ EncOff /\ StreamInit

SpecStream == InitStream /\ [][MergeNext]_vars

InitEnc == MergeOff /\ WorkerOff /\ GoodOff /\ PreOff /\ CfgOff /\ ReuseOff /\ WebOff /\ EncInit

SpecEnc == InitEnc /\ [][EncNext]_vars

SpecWeb == InitWeb /\ [][WebNext]_vars

SpecCfg == InitCfg /\ [][CfgNext]_vars

InitPre == WorkerOff /\ GoodOff /\ CfgOff /\ ReuseOff /\ WebOff /\ EncOff /\ PreInit

SpecPre == InitPre /\ [][PreNext]_vars

InitMerge == WorkerOff /\ GoodOff /\ PreOff /\ CfgOff /\ ReuseOff /\ WebOff /\ EncOff /\ MergeInit

SpecMerge == InitMerge /\ [][MergeNext]_vars

InitWorker == MergeOff /\ GoodOff /\ PreOff /\ CfgOff /\ ReuseOff /\ WebOff /\ EncOff /\ WorkerInit

SpecWorker == InitWorker /\ [][WorkerNext]_vars

InitGood == MergeOff /\ WorkerOff /\ PreOff /\ CfgOff /\ ReuseOff /\ WebOff /\ EncOff /\ GoodInit

SpecGood == InitGood /\ [][GoodNext]_vars

(***************************************************************************)
(* Claims about merge_and_deduplicate, checked under SpecMerge.            *)
(***************************************************************************)
\* the documents of s that are not blank and equal no earlier document of s,
\* in order
RECURSIVE FirstOccurrences(_)
FirstOccurrences(s) ==
    IF s = <<>> THEN <<>>
    ELSE LET before == SubSeq(s, 1, Len(s) - 1)
             d == s[Len(s)]
         IN  IF Strip(d) # <<>> /\ \A j \in 1..Len(before) : before[j] # d
             THEN Append(FirstOccurrences(before), d)
             ELSE FirstOccurrences(before)

\* some non-blank document came twice in the stream
DuplicateSeen ==
    \E i, j \in 1..Len(docs_seen) :
        i < j /\ docs_seen[i] = docs_seen[j] /\ Strip(docs_seen[i]) # <<>>

\* C1 as stated: at every point of the merge, no two documents written so
\* far have the same content after stripping surrounding whitespace.
C1_NoDuplicateAfterStrip ==
    \A i, j \in 1..Len(out) : i < j => Strip(out[i]) # Strip(out[j])

\* C1 as amended: at every point of the merge, no two documents written so
\* far have exactly the same content (compared as written, unstripped).
C1_WrittenDistinct ==
    \A i, j \in 1..Len(out) : i < j => out[i] # out[j]

\* C1's case: a merge that met a duplicate has ended, and it wrote two
\* documents that differ only in surrounding whitespace.
C1_Witness ==
    /\ mpc = "done"
    /\ DuplicateSeen
    /\ \E i, j \in 1..Len(out) : i < j /\ Strip(out[i]) = Strip(out[j])

\* C7: at every point of the merge the documents written are exactly the
\* first occurrences of the non-blank documents extracted so far, in order
\* of first occurrence, and kept_after_dedup is the number of distinct
\* non-blank documents extracted.
C7_FirstOccurrenceKept ==
    /\ out = FirstOccurrences(docs_seen)
    /\ kept_after_dedup =
         Cardinality({docs_seen[i] : i \in {j \in 1..Len(docs_seen) : Strip(docs_seen[j]) # <<>>}})
    /\ kept_after_dedup = Len(out)

\* C7's case: a merge of two scratch files has ended; a document of the
\* first file came again in the second and was written once, next to
\* another document.
C7_Witness ==
    /\ mpc = "done"
    /\ Len(temp_files) = 2
    /\ Len(out) >= 2
    /\ Len(docs_seen) > Len(out)
    /\ \E d \in DocBodies :
          /\ Strip(d) # <<>>
          /\ MatchesAt(disk[temp_files[1]], d \o Delim, 1)
          /\ MatchesAt(disk[temp_files[2]], d \o Delim, 1)
          /\ Cardinality({i \in 1..Len(out) : out[i] = d}) = 1

(***************************************************************************)
(* Claims about process_file and process_file_worker, checked under        *)
(* SpecWorker.                                                             *)
(***************************************************************************)
\* the record is one process_file keeps
IsKept(rec, cfg) ==
    /\ rec.rec_type = "conversion"
    /\ cfg.min_text_length < rec.nbytes
    /\ rec.nbytes < cfg.max_text_length
    /\ rec.good
    /\ rec.quality

\* the indices of the kept records among the first n, in archive order
RECURSIVE KeptUpTo(_)
KeptUpTo(n) ==
    IF n = 0 THEN <<>>
    ELSE IF IsKept(records[n], config) THEN Append(KeptUpTo(n - 1), n) ELSE KeptUpTo(n - 1)

\* C4: if process_file raised, the scratch file is closed and deleted and
\* the worker raised that same exception and returned nothing; if the
\* worker returned, process_file raised nothing, the scratch file is closed
\* and still exists, and the result carries its path with total and kept.
C4_WorkerOutcome ==
    /\ pf_exception # "none" =>
          /\ wpc = "raised"
          /\ ~tf_open
          /\ ~tf_exists
          /\ w_raised = pf_exception
          /\ w_result = "none"
    /\ wpc = "returned" =>
          /\ pf_exception = "none"
          /\ w_raised = "none"
          /\ ~tf_open
          /\ tf_exists
          /\ w_result = [total |-> pf_total, kept |-> pf_kept, temp_file |-> "tmp"]

\* C4's case: process_file raised between two batch flushes, with a batch
\* already written and documents still buffered.
C4_Witness ==
    /\ wpc = "raised"
    /\ pf_exception \in Exceptions
    /\ sink # <<>>
    /\ batch_texts # <<>>
    /\ rec_pos < Len(records)

\* C8: while process_file runs, the documents written followed by the
\* documents buffered are exactly the kept records handled so far, in
\* archive order; once the remainder is flushed, the documents written are
\* exactly the kept records of the archive, in archive order.
C8_ArchiveOrderKept ==
    /\ wpc = "running" => sink \o batch_texts = KeptUpTo(rec_pos)
    /\ wpc \in {"flushed", "returned"} => sink = KeptUpTo(Len(records))
    /\ wpc = "raised" =>
          \E n \in 0..Len(KeptUpTo(Len(records))) : sink = SubSeq(KeptUpTo(Len(records)), 1, n)

\* C8's case: process_file returned after a flush of a full batch and a
\* flush of a remainder, with a rejected record between kept ones.
C8_Witness ==
    /\ wpc = "returned"
    /\ config.batch_size = 2
    /\ Len(sink) = 3
    /\ \E i \in 1..Len(records) : ~IsKept(records[i], config) /\ i < sink[Len(sink)]

(***************************************************************************)
(* Claims about is_good, checked under SpecGood.                           *)
(***************************************************************************)
\* C6: is_good returns true only for a text whose length lies strictly
\* between min_text_length and max_text_length; a text whose length equals
\* either bound is rejected.
C6_StrictLengthBounds ==
    /\ good_result = "True" =>
          /\ good_config.min_text_length < Len(text)
          /\ Len(text) < good_config.max_text_length
    /\ (/\ good_result # "none"
        /\ text_type = "str"
        /\ Len(text) \in {good_config.min_text_length, good_config.max_text_length})
          => good_result = "False"

\* C6's case: is_good accepted a text, one character longer than the lower
\* bound and one shorter than the upper bound.
C6_Witness ==
    /\ good_result = "True"
    /\ Len(text) = good_config.min_text_length + 1
    /\ Len(text) = good_config.max_text_length - 1

(***************************************************************************)
(* Claims about preprocess, checked under SpecPre.                         *)
(***************************************************************************)
\* the chunk of worker_args that holds argument i
ChunkOf(i) == ((i - 1) \div chunksize) + 1

\* a worker is inside process_file_worker for archive i
InFlight(i) == \E w \in DOMAIN workers : workers[w].st = "busy" /\ workers[w].file = i

\* process_file_worker has returned for archive i
FinishedFile(i) == i \in DOMAIN disk /\ ~InFlight(i)

\* the loop has got the result of archive i from the iterator
Consumed(i) == i \in Range(temp_files) \cup Range(pending)

\* the iterator can hand out the result of archive i without waiting for a
\* worker
Available(i) == ChunkOf(i) \in YieldsNow(results, n_yielded)

\* C9 as stated: during collection every finished file's result is
\* consumed or can be consumed at once, whatever else is still being
\* processed.
C9_FinishedFileConsumable ==
    (pc = "collect" /\ failed = <<>>) =>
        \A i \in 1..Len(wet_files) : FinishedFile(i) => Consumed(i) \/ Available(i)

\* C9: during collection, the results of every chunk whose files are all
\* finished are consumed or can be consumed at once, whatever other chunks
\* are still being processed; a finished file's result waits for nothing but
\* a later file of its own chunk.
C9_FinishedChunkConsumable ==
    (pc = "collect" /\ failed = <<>>) =>
        /\ \A c \in 1..NumChunks :
              (\A i \in Range(ChunkFiles(c)) : FinishedFile(i)) =>
                  \A i \in Range(ChunkFiles(c)) : Consumed(i) \/ Available(i)
        /\ \A i \in 1..Len(wet_files) :
              FinishedFile(i) =>
                  \/ Consumed(i)
                  \/ Available(i)
                  \/ \E w \in DOMAIN workers :
                        /\ workers[w].st = "busy"
                        /\ workers[w].chunk = ChunkOf(i)
                        /\ workers[w].file > i

\* a later chunk is finished and can be consumed while an earlier one is
\* still being processed
C9_Witness ==
    /\ pc = "collect"
    /\ failed = <<>>
    /\ \E w \in DOMAIN workers : \E k \in 1..Len(results) :
          /\ workers[w].st = "busy"
          /\ results[k].chunk > workers[w].chunk
          /\ Available(ChunkFirst(results[k].chunk))

\* C10: when the collection loop has ended normally, total and kept are the
\* sums of the per-file values and temp_files holds the scratch file of
\* every archive exactly once.
C10_CollectedAll ==
    pc = "merge" =>
        /\ total = SumTotal(wet_files)
        /\ kept = SumKept(wet_files)
        /\ Len(temp_files) = Len(wet_files)
        /\ Range(temp_files) = 1..Len(wet_files)

\* the loop has ended with the results collected out of the order of
\* wet_files, and kept differs from total
C10_Witness ==
    /\ pc = "merge"
    /\ kept # total
    /\ \E k \in 1..(Len(temp_files) - 1) : temp_files[k] > temp_files[k + 1]

\* C5: once a worker has raised, the merge is never started and no corpus
\* file is written; when the exception has left preprocess it is a worker's
\* exception; and once the pool's with block is left no worker is running.
C5_WorkerFailureAborts ==
    /\ failed # <<>> =>
          /\ pc \in {"collect", "raised"}
          /\ mpc = "off"
          /\ out = <<>>
          /\ output_file = "absent"
    /\ (failed # <<>> /\ pc = "raised") => \E k \in 1..Len(failed) : exception = failed[k].exc
    /\ pc \notin {"start", "collect"} =>
          \A w \in DOMAIN workers : workers[w].st = "terminated"

\* the run was aborted by a worker's exception after some results had been
\* collected, and a scratch file is still on disk
C5_Witness ==
    /\ pc = "raised"
    /\ failed # <<>>
    /\ temp_files # <<>>
    /\ DOMAIN disk # {}
    /\ num_workers = 2

\* C2 as stated: with deduplication enabled, the summary reports as
\* duplicates removed the documents kept by filtering minus the documents
\* written to the corpus, and as kept after dedup the documents written.
C2_ReportedCounts ==
    (summary # <<>> /\ dedup_enabled) =>
        /\ summary[1].exact_duplicates_removed = summary[1].after_filtering - Len(out)
        /\ summary[1].after_exact_dedup = Len(out)

\* C3 as stated: no scratch file exists when the run has ended, no path is
\* deleted twice, and a path is deleted only by its failing worker or after
\* the merge.
C3_ScratchDeletedOnce ==
    /\ pc \in {"done", "raised"} => DOMAIN disk = {}
    /\ \A j, k \in 1..Len(unlinks) : unlinks[j] = unlinks[k] => j = k
    /\ \A k \in 1..Len(unlinks) :
          \/ \E j \in 1..Len(failed) : failed[j].file = unlinks[k]
          \/ pc \in {"summary", "done", "raised"} /\ output_file = "written"

\* C11: the worker processes of the pool are never more than the archives
\* and never more than the CPUs.
C11_WorkersBounded ==
    /\ Len(workers) <= Len(wet_files)
    /\ Len(workers) <= cpu_count
    /\ pc \notin {"off", "start", "raised"} => Len(workers) = num_workers

\* a pool is running that has fewer workers than the machine has CPUs,
\* because there are fewer archives
C11_Witness ==
    /\ pc = "collect"
    /\ Len(workers) = Len(wet_files)
    /\ Len(wet_files) < cpu_count
    /\ \A w \in DOMAIN workers : workers[w].st = "busy"

(***************************************************************************)
(* Claims about the configuration getters, checked under SpecCfg.          *)
(***************************************************************************)
\* the values the modules define
OriginalValues ==
    [cleaning |-> Values(DEFAULT_CONFIG, LoadedHeap),
     preparation |-> Values(PREPARATION_CONFIG, LoadedHeap)]

\* C12 as stated: whatever callers did to the dictionaries they got, top
\* level or nested, a getter returns the values its module defines.
C12_GetterReturnsDefaults ==
    \A k \in 1..Len(last_returned) :
        last_returned[k].values = OriginalValues[last_returned[k].getter]

(***************************************************************************)
(* Claims about is_good and quality_check on degenerate arguments,         *)
(* checked under SpecGood.                                                 *)
(***************************************************************************)
\* C13 as stated: called with None or with the empty string, is_good and
\* quality_check end by returning False.
C13_FalseOnNoneOrEmpty ==
    (text_type = "NoneType" \/ text = <<>>) =>
        /\ good_result \in {"none", "False"}
        /\ quality_result \in {"none", "False"}

\* C14: a merge that completed normally opened every scratch file of the
\* list, in order, and saw every kept document; when a scratch file has
\* gone missing the run ends raised, no scratch file after the missing one
\* is opened, and no summary is printed.
C14_MergeFailureIsFatal ==
    LET missing == {k \in 1..Len(temp_files) : temp_files[k] \in lost}
    IN  /\ pc \in {"cleanup", "summary", "done"} =>
              /\ lost = {}
              /\ merge_opened = temp_files
              /\ dedup_enabled => Len(docs_seen) = kept
        /\ (lost # {} /\ pc # "merge") =>
              /\ pc = "raised"
              /\ exception \in {"FileNotFoundError", "OSError"}
              /\ summary = <<>>
              /\ \A j \in 1..Len(merge_opened) :
                    /\ merge_opened[j] = temp_files[j]
                    /\ \A k \in missing : j < k

\* the merge wrote the documents of a first scratch file, raised at a
\* missing second one and left a third, present one unopened
C14_Witness ==
    /\ pc = "raised"
    /\ dedup_enabled
    /\ exception = "FileNotFoundError"
    /\ out # <<>>
    /\ Len(merge_opened) = 1
    /\ \E k \in 3..Len(temp_files) : temp_files[k] \in DOMAIN disk

(***************************************************************************)
(* Claims about the loop of process_file, checked under SpecWorker.        *)
(***************************************************************************)
\* the documents written or buffered so far
Emitted == Range(sink \o batch_texts)

\* the conversion records among the first n whose byte length passes the
\* prefilter, in archive order
RECURSIVE PrefilteredUpTo(_)
PrefilteredUpTo(n) ==
    IF n = 0 THEN <<>>
    ELSE IF /\ records[n].rec_type = "conversion"
            /\ config.min_text_length < records[n].nbytes
            /\ records[n].nbytes < config.max_text_length
         THEN Append(PrefilteredUpTo(n - 1), n)
         ELSE PrefilteredUpTo(n - 1)

\* C15: a classified record is written or buffered if and only if both
\* is_good and quality_check accepted it, and kept counts exactly those
\* records.
C15_KeptIffBothStages ==
    /\ \A i \in Range(classified) :
          i \in Emitted <=> (records[i].good /\ records[i].quality)
    /\ pf_kept = Cardinality({i \in Range(classified) : records[i].good /\ records[i].quality})

\* the archive held a record failing only Stage 1, one failing only Stage 2
\* and one passing both
C15_Witness ==
    /\ wpc = "returned"
    /\ \E i, j, k \in Range(classified) :
          /\ records[i].good /\ ~records[i].quality
          /\ ~records[j].good /\ records[j].quality
          /\ records[k].good /\ records[k].quality

\* C16 as stated: when process_file has returned, the documents written
\* are as many as the returned kept count, none twice, and the batch is
\* empty.
C16_WrittenOnceBatchEmpty ==
    wpc = "returned" =>
        /\ Len(sink) = w_result.kept
        /\ \A j, k \in 1..Len(sink) : sink[j] = sink[k] => j = k
        /\ batch_texts = <<>>

\* C16: when process_file has returned, the documents written are the kept
\* records, each once, as many as the returned kept count; the batch still
\* holds the remainder written last, kept mod batch_size documents.
C16_WrittenOnce ==
    wpc = "returned" =>
        /\ Len(sink) = w_result.kept
        /\ \A j, k \in 1..Len(sink) : sink[j] = sink[k] => j = k
        /\ Range(sink) = {i \in 1..Len(records) : IsKept(records[i], config)}
        /\ batch_texts = SubSeq(sink, Len(sink) - (pf_kept % config.batch_size) + 1, Len(sink))

\* process_file returned after a flush of a full batch and a flush of a
\* remainder, which the batch still holds
C16_Witness ==
    /\ wpc = "returned"
    /\ batch_texts # <<>>
    /\ Len(sink) > Len(batch_texts)

\* C17: the batch never holds more than batch_size documents, and between
\* two records it holds fewer than batch_size.
C17_BatchBounded ==
    /\ batch_peak <= config.batch_size
    /\ Len(batch_texts) < config.batch_size

\* a batch of two documents was filled and written, and a document is
\* buffered again
C17_Witness ==
    /\ wpc = "running"
    /\ config.batch_size = 2
    /\ batch_peak = 2
    /\ Len(sink) = 2
    /\ Len(batch_texts) = 1

\* C18: total counts the conversion records handled, each once; the records
\* classified are exactly the conversion records whose byte length lies
\* strictly between the bounds, so a record outside them is never
\* classified, kept or written.
C18_PrefilterSkips ==
    /\ pf_total = Cardinality({i \in 1..rec_pos : records[i].rec_type = "conversion"})
    /\ classified = PrefilteredUpTo(rec_pos)
    /\ Emitted \subseteq Range(classified)
    /\ pf_kept <= Len(classified)

\* the archive held a record of another type, a record at each bound and a
\* record between the bounds
C18_Witness ==
    /\ wpc = "returned"
    /\ Len(records) = 4
    /\ pf_total = 3
    /\ Len(classified) = 1
    /\ \E i, j \in 1..Len(records) :
          /\ records[i].rec_type = "conversion" /\ records[i].nbytes = config.min_text_length
          /\ records[j].rec_type = "conversion" /\ records[j].nbytes = config.max_text_length

(***************************************************************************)
(* Claims about the order in which merge_and_deduplicate goes through the  *)
(* scratch files, checked under SpecMerge.                                 *)
(***************************************************************************)
\* at most one scratch file is open; the files opened are the files of the
\* list, in list order, none skipped and none twice; every file but the
\* last opened has been closed, and every file closed had been read to its
\* end
OneFileAtATime ==
    /\ Cardinality(open_files) <= 1
    /\ merge_opened = SubSeq(temp_files, 1, Len(merge_opened))
    /\ \A j, k \in 1..Len(merge_opened) : merge_opened[j] = merge_opened[k] => j = k
    /\ Len(merge_closed) <= Len(merge_opened)
    /\ Len(merge_opened) <= Len(merge_closed) + 1
    /\ \A k \in 1..Len(merge_closed) :
          /\ merge_closed[k].path = merge_opened[k]
          /\ merge_closed[k].read = Len(disk[merge_closed[k].path])
    /\ open_files = {merge_opened[k] : k \in (Len(merge_closed) + 1)..Len(merge_opened)}
    /\ mpc = "done" => Len(merge_closed) = Len(temp_files)

\* the steps the merge has left at most: one to return, and for every
\* file not yet closed one to open it, one per unread byte and one to close
RECURSIVE BytesFrom(_)
BytesFrom(k) ==
    IF k > Len(temp_files) THEN 0 ELSE Len(disk[temp_files[k]]) + 2 + BytesFrom(k + 1)

WorkLeft ==
    IF mpc = "done" THEN 0
    ELSE 1 + BytesFrom(file_idx + 1)
           + (IF mpc = "streaming"
              THEN Len(disk[temp_files[file_idx]]) - file_pos + 1 ELSE 0)

\* short of done the merge has a step to take: between files the next file
\* is opened or the loop ends, and inside a file a chunk is read or the end
\* of the file is met
NotStuck ==
    /\ mpc \in {"idle", "streaming", "done"}
    /\ file_idx <= Len(temp_files)
    /\ mpc = "streaming" =>
          /\ file_idx >= 1
          /\ file_pos <= Len(disk[temp_files[file_idx]])
          /\ \/ file_pos < Len(disk[temp_files[file_idx]])
             \/ ReadReturnsEmpty(file_pos, disk[temp_files[file_idx]])

\* C19: the merge goes through the scratch files one at a time in list
\* order -- never two open, the next opened only when the one before has
\* been read to its end and closed, none reopened -- and it reaches the end
\* of the list: short of done it always has a step to take, and every step
\* takes from the finite work left.
C19_OneAtATimeToDone ==
    [](OneFileAtATime /\ NotStuck /\ WorkLeft >= 0) /\ [][WorkLeft' < WorkLeft]_vars

\* the merge of two non-empty files, read one byte at a time, is done
C19_Witness ==
    /\ mpc = "done"
    /\ chunk_size = 1
    /\ Len(merge_closed) = 2
    /\ \A k \in 1..2 : merge_closed[k].read > 1

\* the documents the merge extracts from scratch file k taken alone
DocsOfFile(k) == MergeAll(NewDeduplicator, <<disk[temp_files[k]]>>, chunk_size).docs_seen

\* C20: non-blank text a scratch file leaves in the buffer is one more
\* document of that file, checked against the hash set of the merge and
\* written once; every file starts with an empty buffer, so the documents
\* of the merge are the documents of each file taken alone, file after file.
C20_TrailingIsFinalDocument ==
    /\ \A k \in 1..Len(merge_closed) :
          Strip(merge_closed[k].left) # <<>> =>
              /\ merge_closed[k].left \in Range(docs_seen)
              /\ Hash(merge_closed[k].left) \in exact_hashes
              /\ Cardinality({i \in 1..Len(out) : out[i] = merge_closed[k].left}) = 1
    /\ (mpc = "streaming" /\ file_pos = 0) => buffer = <<>>
    /\ mpc = "done" =>
          docs_seen = Flatten([k \in 1..Len(temp_files) |-> DocsOfFile(k)])

\* two scratch files ended with the same unterminated text: it was seen
\* twice and written once
C20_Witness ==
    /\ mpc = "done"
    /\ Len(merge_closed) = 2
    /\ Strip(merge_closed[1].left) # <<>>
    /\ merge_closed[2].left = merge_closed[1].left
    /\ Len(docs_seen) = 2
    /\ Len(out) = 1

(***************************************************************************)
(* Claims about the hash set, checked under SpecMerge.                     *)
(***************************************************************************)
\* C21: during a merge the hash set only grows -- no step takes a hash out
\* of it, between documents or between scratch files -- and it holds the
\* hash of every non-blank document extracted so far, so a document of an
\* earlier file is recognised in every later file and written once.
C21_HashSetGrows ==
    /\ [][exact_hashes \subseteq exact_hashes']_vars
    /\ [](\A i \in 1..Len(docs_seen) :
             Strip(docs_seen[i]) # <<>> =>
                 /\ Hash(docs_seen[i]) \in exact_hashes
                 /\ Cardinality({k \in 1..Len(out) : out[k] = docs_seen[i]}) = 1)

\* a merge of two scratch files is done: the hash set holds two hashes, and
\* a non-blank document of the first file came again in the second
C21_Witness ==
    /\ mpc = "done"
    /\ Len(temp_files) = 2
    /\ Cardinality(exact_hashes) = 2
    /\ \E i \in 1..Len(DocsOfFile(1)), j \in 1..Len(DocsOfFile(2)) :
          /\ Strip(DocsOfFile(1)[i]) # <<>>
          /\ DocsOfFile(1)[i] = DocsOfFile(2)[j]
    /\ Len(out) = 2

(***************************************************************************)
(* Claims about a ContentDeduplicator object used for more than one merge, *)
(* checked under SpecReuse.                                                *)
(***************************************************************************)
\* what a call on a new object writes and counts for the same files
OnNewObject(files) == MergeAll(NewDeduplicator, files, 1024 * 1024)

\* C22 as stated: every merge_and_deduplicate call starts from an empty
\* hash set and a zero counter, also a second call on the same object: what
\* it writes and the count it leaves are those of a call on a new object.
C22_EachCallOwnsItsSet ==
    \A k \in 1..Len(calls) :
        /\ calls[k].out = OnNewObject(calls[k].files).out
        /\ calls[k].kept_count = OnNewObject(calls[k].files).kept_after_dedup

(***************************************************************************)
(* Claims about clean_web_content and remove_web_boilerplate, checked      *)
(* under SpecWeb.                                                          *)
(***************************************************************************)
\* the lines left of the text after cleaning, stripping and dropping
LinesLeft == NonEmptyLines(SplitOn(clean_web_content(web_text), "\n"))

\* the lines of a text joined with newlines (the empty text has none)
LinesOf(t) == IF t = <<>> THEN <<>> ELSE SplitOn(t, "\n")

\* C23: with n > 10 lines left, remove_web_boilerplate returns exactly the
\* lines at indices floor(n/7) up to but excluding n - floor(n/7), in
\* order; with n <= 10 it returns all n lines.
C23_TrimsOneSeventh ==
    web_result # <<>> =>
        LET n == Len(LinesLeft)
            cut == n \div 7
        IN  /\ n > 10 =>
                  LinesOf(web_result[1]) = [i \in 1..(n - 2 * cut) |-> LinesLeft[cut + i]]
            /\ n <= 10 => LinesOf(web_result[1]) = LinesLeft

\* fourteen lines were left: the first two and the last two are cut
C23_Witness ==
    /\ web_result # <<>>
    /\ Len(LinesLeft) = 14
    /\ Len(LinesOf(web_result[1])) = 10
    /\ LinesOf(web_result[1])[1] = LinesLeft[3]
    /\ LinesOf(web_result[1])[10] = LinesLeft[12]

\* len(stripped) > 15 keeps a line in the older snapshot of
\* remove_web_boilerplate
SubstantialLength == 15

\* C24 as stated: no line of the text remove_web_boilerplate returns is
\* shorter than a substantial line, and such lines are dropped before the
\* lines are counted against 10.
C24_ShortLinesDropped ==
    web_result # <<>> =>
        /\ \A i \in 1..Len(LinesOf(web_result[1])) :
               Len(LinesOf(web_result[1])[i]) > SubstantialLength
        /\ Len(LinesOf(web_result[1])) < Len(LinesLeft) =>
               Cardinality({i \in 1..Len(LinesLeft) :
                               Len(LinesLeft[i]) > SubstantialLength}) > 10

\* C25: clean_web_content returns a text of fewer than 100 characters as it
\* is, whatever its length in bytes; a text of 100 characters or more goes
\* through the removal pattern and then the five cleanup rules in list
\* order.
C25_ShortTextsUntouched ==
    web_cleaned # <<>> =>
        /\ Len(web_text) < 100 => web_cleaned[1] = web_text
        /\ Len(web_text) >= 100 =>
              web_cleaned[1] =
                Sub("newlines", <<"\n", "\n">>,
                  Sub("blanks", <<" ">>,
                    Sub("asterisks", <<"\n">>,
                      Sub("divider", <<"\n">>,
                        Sub("glyphs", <<" ">>,
                          Sub("removal", <<" ">>, web_text))))))

\* a text of exactly 100 characters came back changed
C25_Witness ==
    /\ web_cleaned # <<>>
    /\ Len(web_text) = 100
    /\ web_cleaned[1] # web_text

(***************************************************************************)
(* Claims about the line diversity check of quality_check, checked under   *)
(* SpecGood.                                                               *)
(***************************************************************************)
\* C26: quality_check returns False for every text with at least 5
\* non-blank lines of which at most half are distinct, whatever the other
\* checks would say; for a text with fewer than 5 non-blank lines the
\* answer is the one of the other checks alone.
C26_RepetitiveRejected ==
    (quality_result \in {"True", "False"} /\ text_type = "str") =>
        LET n == Len(StrippedLines(text))
            distinct == Cardinality(Range(StrippedLines(text)))
        IN  /\ (n >= 5 /\ distinct * 2 <= n) => quality_result = "False"
            /\ (n < 5 /\ Len(text) >= good_config.min_text_length) =>
                  (quality_result = "True") = QualityAfterLines(text, good_config)

\* a text of six lines of which three are distinct, which passes every
\* other check, was rejected
C26_Witness ==
    /\ quality_result = "False"
    /\ text_type = "str"
    /\ Len(StrippedLines(text)) = 6
    /\ Cardinality(Range(StrippedLines(text))) = 3
    /\ Len(text) >= good_config.min_text_length
    /\ QualityAfterLines(text, good_config)

(***************************************************************************)
(* Claims about is_valid_encoding, checked under SpecEnc.                  *)
(***************************************************************************)
\* C27 as stated: is_valid_encoding returns False for None and for an empty
\* argument; for every other argument it returns True exactly when the
\* printable bytes are a share of all bytes strictly above the threshold,
\* and so False for bytes none of which is printable.
C27_StrictPrintableRatio ==
    enc_result # "none" =>
        LET text_bytes == TextBytes(enc_type, enc_value)
            printable_count == CountIn(text_bytes, PrintableBytes)
        IN  /\ enc_result \in {"True", "False"}
            /\ (enc_type = "NoneType" \/ enc_value = <<>>) => enc_result = "False"
            /\ (enc_type # "NoneType" /\ enc_value # <<>>) =>
                  (enc_result = "True") =
                     (printable_count * enc_config.printable_ratio_threshold[2]
                        > enc_config.printable_ratio_threshold[1] * Len(text_bytes))
            /\ (enc_type = "bytes" /\ enc_value # <<>> /\ printable_count = 0) =>
                  enc_result = "False"

(***************************************************************************)
(* Claims about the scratch files read back by the merge, checked under    *)
(* SpecStream.                                                             *)
(***************************************************************************)
\* what is left of a text after its last delimiter
RECURSIVE RestAfterDocs(_)
RestAfterDocs(t) ==
    IF ~Contains(t, Delim) THEN t ELSE RestAfterDocs(SplitOnce(t, Delim).rest)

\* the documents of a file decoded at once and split on the delimiter: the
\* pieces the delimiter ends, and what follows the last if it is not blank
WholeFileDocs(f) ==
    TerminatedDocs(Decode(f))
      \o (IF Strip(RestAfterDocs(Decode(f))) # <<>> THEN <<RestAfterDocs(Decode(f))>> ELSE <<>>)

\* the documents the workers wrote, file after file
DocsWritten == Flatten([i \in 1..Len(wet_files) |-> wet_files[i].docs])

\* C28 as stated: no kept document holds two consecutive newlines or the
\* delimiter; so the merge reads every document written back as one
\* document, and it never counts more documents than the workers kept.
C28_ReadBackOneForOne ==
    /\ \A k \in 1..Len(DocsWritten) :
          /\ ~Contains(DocsWritten[k], <<"\n", "\n">>)
          /\ ~Contains(DocsWritten[k], Delim)
    /\ mpc = "done" => Len(docs_seen) = Len(DocsWritten)
    /\ 0 <= kept_after_dedup
    /\ kept_after_dedup <= kept

\* C29 as stated: whatever the chunk size, the documents the merge extracts
\* from the scratch files are those of each file decoded at once and split
\* on the delimiter.
C29_ChunkSizeIndependent ==
    mpc = "done" =>
        docs_seen = Flatten([k \in 1..Len(temp_files) |-> WholeFileDocs(disk[temp_files[k]])])

(***************************************************************************)
(* Claim about the edge inputs of preprocess, checked under SpecPre.       *)
(***************************************************************************)
\* C30 as stated: preprocess never creates a pool of 0 workers and never
\* divides by a document count of 0; a run that ends has printed its
\* summary.
C30_NoZeroPoolNoZeroDivision ==
    /\ pc # "start" => num_workers >= 1
    /\ exception \notin {"ValueError", "ZeroDivisionError"}
    /\ pc = "done" => summary # <<>>

====
